---- MODULE Spec2Model ----
(***************************************************************************)
(* Verification model of the learn-by-doing backend:                       *)
(*   app/workflow/graph.py      the LangGraph topology, should_continue,   *)
(*                              finalize_node                              *)
(*   app/workflow/state.py      WorkflowState, create_initial_state        *)
(*   app/agents/*.py            the four stage agents (run methods)        *)
(*   app/services/path_service.py  PathService.generate_path               *)
(*   app/core/llm.py            LLMClient: generate_with_retry,            *)
(*                              _extract_retry_delay, generate_json        *)
(*   app/services/validation_service.py  ResourceValidator.validate_batch  *)
(*                                                                         *)
(* Scores are integers in hundredths (0.85 is 85).  A dict-valued state    *)
(* key is a record with an `empty` flag ({} is the record with empty =     *)
(* TRUE).  A draft carries the Structuring attempt that produced it, its   *)
(* phases (each the number of its tasks) and its total_tasks.              *)
(* final_output is <<>> for None and <<d>> for the dict d.                 *)
(***************************************************************************)
EXTENDS Integers, Sequences, FiniteSets, TLC

(* ------------------------------ bounds -------------------------------- *)
\* Largest configured MAX_ITERATIONS explored (Settings.MAX_ITERATIONS is any int).
MaxCeiling == 5
\* Largest number of stage failures explored in one run.
MaxFailures == 2
\* Largest number of named sub-scores in a Quality Gate score map.
MaxScores == 3
\* Largest max_retries explored over whole calls of generate_with_retry.
MaxRetries == 3
\* Largest max_retries explored over the last two iterations of its loop.
MaxLoopRetries == 7
\* Largest number of delay phrasings in a rate-limit payload.
MaxPhrases == 2
\* Largest length, in pieces, of a generated text.
MaxTextLen == 5
\* Largest number of generate_json calls made with one message list.
MaxCalls == 2
\* Largest number of resources in a batch.
MaxResources == 3
\* Largest max_concurrent explored.
MaxConcurrent == 2
\* Largest number of phases in a generated document.
MaxPhaseCount == 2
\* Largest number of tasks in a phase, and largest declared total.
MaxTasks == 2
\* Largest url at which a query's results start.
MaxUrl == 4

(* ------------------------- program constants -------------------------- *)
\* quality.py:139  all(score >= 0.8 ...)
MIN_SUBSCORE == 80
\* quality.py:164  state["iteration"] >= 5
FORCE_APPROVAL_ITERATION == 5
\* config.py:22  QUALITY_THRESHOLD: float = 0.85
DEFAULT_QUALITY_THRESHOLD == 85

\* Sub-score values (all = 2 mod 4, so that no average of up to four of them
\* lies exactly halfway between two hundredths, where round() goes by the
\* binary floating-point value of the quotient).
ScoreValues == {78, 82, 86, 90}
Thresholds == {80, DEFAULT_QUALITY_THRESHOLD, 90}

\* Score maps of 1..MaxScores named sub-scores (criterion i |-> score).
AllScoreMaps == UNION {[1..k -> ScoreValues] : k \in 1..MaxScores}
\* The six sub-scores of the end-to-end scenario, and a map with one
\* sub-score at 0.79, in hundredths.
ScenarioScores == <<90, 85, 82, 81, 83, 80>>
OneLowScores == <<90, 79, 90>>
\* Score maps used in full workflow runs: approving, rejecting on the mean,
\* rejecting on one sub-score.
RunScoreMaps == {<<90, 90>>, <<82, 82>>, <<78, 90>>}

Stages == {"research", "curriculum", "expert", "quality"}
FailureKinds == {"generation_error", "missing_key"}

VARIABLES
    MAX_ITERATIONS,     \* Settings.MAX_ITERATIONS
    QUALITY_THRESHOLD,  \* Settings.QUALITY_THRESHOLD (hundredths)
    pc,                 \* node about to run / position inside generate_path
    research_findings, draft_curriculum, expert_feedback, quality_review,
    iteration, approved, final_output, completed_at, errors, agent_logs,
    outcome,            \* history: what the last stage execution did
    result,             \* generate_path's return value, <<>> before it returns
    raised,             \* the exception generate_path raised, "" if none
    \* LLMClient.generate_with_retry (app/core/llm.py)
    max_retries,        \* the attempt ceiling of the call
    attempt,            \* the loop variable of `for attempt in range(...)`
    calls,              \* network calls made (one per generate())
    waits,              \* the asyncio.sleep calls made, in order
    last_error,         \* last_error: <<>> for None, <<e>> for the exception e
    rpc,                \* "idle", "loop", "returned" or "raised"
    rtext,              \* the returned text / the raised exception's cause
    history,            \* history: the outcome of every generate() call
    \* LLMClient.generate_json (app/core/llm.py)
    messages,           \* the caller's list: references to message dicts
    heap,               \* the message dicts: reference |-> dict
    sent,               \* the last message of every request sent
    raw,                \* the text generate_with_retry returned
    cleaned,            \* `response` when it is tested and parsed
    jpc,                \* "idle", "call", "generated" or "done"
    joutcome,           \* "none", "parsed", "empty", "malformed", "llm_error"
    jcalls,             \* generate_with_retry calls of the current call
    jcount,             \* generate_json calls made by the caller
    \* ResourceValidator.validate_batch (app/services/validation_service.py)
    resources,          \* the input list
    max_concurrent,     \* the limiter's size
    permits,            \* the semaphore's free permits
    tstate,             \* per task: "pending", "head", "get" or "done"
    tresult,            \* per task: what validate_with_limit returned
    requests,           \* history, per task: requests sent and their answers
    last_done,          \* history: the task that finished last, 0 if none
    bpc,                \* "idle", "gather", "returned" or "raised"
    results,            \* processed_results, as returned
    \* Generation requests running side by side on the compiled workflow
    runs,               \* per request: its WorkflowState and where it is
    lists               \* the list objects: reference |-> list

llmVars == <<max_retries, attempt, calls, waits, last_error, rpc, rtext,
             history>>

\* The variables of the services the workflow's stages call.
jsonVars == <<messages, heap, sent, raw, cleaned, jpc, joutcome, jcalls,
              jcount>>

batchVars == <<resources, max_concurrent, permits, tstate, tresult,
               requests, last_done, bpc, results>>

runVars == <<runs, lists>>

\* The variables the actions of the followed run leave alone.
serviceVars == <<llmVars, jsonVars, batchVars, runVars>>

vars == <<MAX_ITERATIONS, QUALITY_THRESHOLD, pc, research_findings,
          draft_curriculum, expert_feedback, quality_review, iteration,
          approved, final_output, completed_at, errors, agent_logs, outcome,
          result, raised, serviceVars>>

followedVars == <<MAX_ITERATIONS, QUALITY_THRESHOLD, pc, research_findings,
                  draft_curriculum, expert_feedback, quality_review,
                  iteration, approved, final_output, completed_at, errors,
                  agent_logs, outcome, result, raised>>

\* The variables the actions of the services leave alone.
workflowVars == <<followedVars, runVars>>

state == <<research_findings, draft_curriculum, expert_feedback,
           quality_review, iteration, approved, final_output, completed_at,
           errors, agent_logs>>

(* ------------------------------ helpers ------------------------------- *)
RECURSIVE SumSeq(_)
SumSeq(s) == IF s = <<>> THEN 0 ELSE Head(s) + SumSeq(Tail(s))

AgentName(node) ==
    CASE node = "research"   -> "ResearchAgent"
      [] node = "curriculum" -> "CurriculumAgent"
      [] node = "expert"     -> "ExpertAgent"
      [] node = "quality"    -> "QualityAgent"

\* The fixed part of the message each stage's except clause records; the
\* text of the exception that follows it is not kept.
ErrorText(node) ==
    CASE node = "research"   -> "Research failed"
      [] node = "curriculum" -> "Curriculum design failed"
      [] node = "expert"     -> "Expert validation failed"
      [] node = "quality"    -> "Quality review failed"

EmptyFindings == [empty |-> TRUE]
EmptyDraft == [empty |-> TRUE, attempt |-> 0]
EmptyFeedback == [empty |-> TRUE, draft |-> 0]
EmptyReview == [empty |-> TRUE, approved |-> FALSE, score |-> 0,
                scores |-> <<>>, draft |-> 0]
NoOutcome == [agent |-> "", status |-> "none", reported |-> FALSE]

(* --------------------------- base.py -------------------------------- *)
\* Variant: the list is replaced by one holding the new entry.
log_action_Replaces(logs, name, action, iter) ==
    <<[agent |-> name, action |-> action, iteration |-> iter]>>

\* Variant: the entry is written to the logger only.
log_action_Silent(logs, name, action, iter) == logs

log_action(logs, name, action, iter) ==
    Append(logs, [agent |-> name, action |-> action, iteration |-> iter])

\* Variant: the except clause logs the error but does not record it.
add_error_Dropped(errs, name, error) == errs

add_error(errs, name, error) ==
    Append(errs, [agent |-> name, error |-> error])

(* --------------------------- graph.py ------------------------------- *)
\* Variant: the ceiling test comes first and approval is not consulted.
should_continue_IgnoringApproval(app, iter, max) ==
    IF iter >= max THEN "finalize" ELSE "continue"

\* Variant: the ceiling test is strict (iteration > MAX_ITERATIONS).
should_continue_StrictCeiling(app, iter, max) ==
    IF app THEN "finalize"
    ELSE IF iter > max THEN "finalize"
    ELSE "continue"

should_continue(app, iter, max) ==
    IF app THEN "finalize"
    ELSE IF iter >= max THEN "finalize"
    ELSE "continue"

\* Variant: the edge out of "curriculum" goes straight to "quality".
NextNode_SkipsReview(node, route) ==
    CASE node = "research"   -> "curriculum"
      [] node = "curriculum" -> "quality"
      [] node = "expert"     -> "quality"
      [] node = "quality"    -> IF route = "continue" THEN "curriculum" ELSE "finalize"
      [] node = "finalize"   -> "END"

\* The edges of create_workflow; the edge out of "quality" is conditional.
NextNode(node, route) ==
    CASE node = "research"   -> "curriculum"
      [] node = "curriculum" -> "expert"
      [] node = "expert"     -> "quality"
      [] node = "quality"    -> IF route = "continue" THEN "curriculum" ELSE "finalize"
      [] node = "finalize"   -> "END"

\* Variant: the else branch of finalize_node leaves final_output unset.
FinalOutput_OnlyWhenApproved(app, draft) ==
    IF app /\ ~draft.empty THEN <<draft>> ELSE <<>>

FinalOutput(app, draft) ==
    IF app /\ ~draft.empty THEN <<draft>> ELSE <<draft>>

(* ------------------ services not being followed -------------------- *)
\* No call of the language-model client is being followed.
LlmIdle ==
    /\ max_retries = 0
    /\ attempt = 0
    /\ calls = 0
    /\ waits = <<>>
    /\ last_error = <<>>
    /\ rpc = "idle"
    /\ rtext = <<>>
    /\ history = <<>>

\* No structured generation is being followed.
JsonIdle ==
    /\ messages = <<>>
    /\ heap = <<>>
    /\ sent = <<>>
    /\ raw = <<>>
    /\ cleaned = <<>>
    /\ jpc = "idle"
    /\ joutcome = "none"
    /\ jcalls = 0
    /\ jcount = 0

\* No batch validation is being followed.
BatchIdle ==
    /\ resources = <<>>
    /\ max_concurrent = 0
    /\ permits = 0
    /\ tstate = <<>>
    /\ tresult = <<>>
    /\ requests = <<>>
    /\ last_done = 0
    /\ bpc = "idle"
    /\ results = <<>>

\* No side-by-side requests are being followed.
RunsIdle == runs = <<>> /\ lists = <<>>

ServicesIdle == LlmIdle /\ JsonIdle /\ BatchIdle /\ RunsIdle

(* --------------------------- state.py ------------------------------- *)
create_initial_state ==
    /\ research_findings = EmptyFindings
    /\ draft_curriculum = EmptyDraft
    /\ expert_feedback = EmptyFeedback
    /\ quality_review = EmptyReview
    /\ iteration = 0
    /\ approved = FALSE
    /\ final_output = <<>>
    /\ completed_at = "null"
    /\ errors = <<>>
    /\ agent_logs = <<>>

Init ==
    /\ MAX_ITERATIONS \in 0..MaxCeiling
    /\ QUALITY_THRESHOLD = DEFAULT_QUALITY_THRESHOLD
    /\ create_initial_state
    /\ pc = "research"
    /\ outcome = NoOutcome
    /\ result = <<>>
    /\ raised = ""
    /\ ServicesIdle

(* --------------------------- quality.py ----------------------------- *)
\* round(sum(scores.values()) / len(scores), 2), in hundredths.  An average
\* that lies exactly halfway between two hundredths is rounded by its
\* floating-point value, which may fall on either side: both are outcomes.
RoundedAverages(scores) ==
    LET n == Len(scores)
        s == SumSeq(scores)
        up == (2 * s + n) \div (2 * n)
    IN IF (2 * s + n) % (2 * n) = 0 THEN {up - 1, up} ELSE {up}

\* approved = response["approved"] and response["score"] >= threshold
\*            and all(score >= 0.8 for score in scores.values())
ComputeApproved(rep, score, threshold, scores) ==
    /\ rep
    /\ score >= threshold
    /\ \A i \in DOMAIN scores : scores[i] >= MIN_SUBSCORE

\* Variant: the forced approval is applied from the first iteration on.
ForcedApproval_Always(app, iter) == TRUE

\* if not approved and state["iteration"] >= 5: state["approved"] = True
ForcedApproval(app, iter) ==
    IF ~app /\ iter >= FORCE_APPROVAL_ITERATION THEN TRUE ELSE app

(* ------------------------- the stage agents ------------------------- *)
\* A stage's try block raises (generate_json raised, or a required key is
\* missing): the except clause records the error, the state is returned.
StageFails(node, logs1) ==
    /\ Len(errors) < MaxFailures
    /\ \E kind \in FailureKinds :
         /\ errors' = add_error(errors, AgentName(node), ErrorText(node))
         /\ outcome' = [agent |-> AgentName(node), status |-> kind,
                        reported |-> FALSE]
    /\ agent_logs' = logs1

\* research.py:135  search_queries[:3]
QUERY_LIMIT == 3
\* research.py:137  max_results=3
MAX_RESULTS == 3
\* research.py:152  unique_results[:10]
RESULT_CAP == 10
\* research.py:186  len(search_results) >= 5, >= 3
HIGH_CONFIDENCE_SOURCES == 5
MEDIUM_CONFIDENCE_SOURCES == 3

\* What one search query does: it raises, or returns up to MAX_RESULTS
\* results, each modelled by its url (0: no url, or an empty one).
QueryAnswers ==
    {[raised |-> TRUE, urls |-> <<>>]}
      \cup {[raised |-> FALSE, urls |-> [i \in 1..l |-> u + i - 1]] :
              u \in 1..MaxUrl, l \in 0..MAX_RESULTS}
      \cup {[raised |-> FALSE, urls |-> <<0>>],
            [raised |-> FALSE, urls |-> <<0, 1>>]}

\* The searches of the end-to-end scenario: 4 distinct sources.
ScenarioSearch ==
    <<[raised |-> FALSE, urls |-> <<1, 2>>],
      [raised |-> FALSE, urls |-> <<2, 3>>],
      [raised |-> FALSE, urls |-> <<4>>]>>

\* What the generator returns: whether each required top-level key is
\* there, whether scope_assessment has the two keys the completion log
\* reads, and the confidence it wrote in search_metadata ("" for none).
ResearchResponses ==
    [complete : BOOLEAN, scope : BOOLEAN, claimed : {"", "high", "low"}]

\* search_results.extend(results) over the queries; a query that raises is
\* skipped.
RECURSIVE Collected(_)
Collected(search) ==
    IF search = <<>> THEN <<>>
    ELSE (IF Head(search).raised THEN <<>> ELSE Head(search).urls)
           \o Collected(Tail(search))

\* if url and url not in seen_urls: seen_urls.add(url); append
RECURSIVE Unique(_, _)
Unique(urls, seen_urls) ==
    IF urls = <<>> THEN <<>>
    ELSE IF Head(urls) # 0 /\ Head(urls) \notin seen_urls
           THEN <<Head(urls)>> \o Unique(Tail(urls), seen_urls \cup {Head(urls)})
           ELSE Unique(Tail(urls), seen_urls)

\* search_results = unique_results[:10]
SearchResults(search) ==
    LET unique_results == Unique(Collected(search), {})
    IN SubSeq(unique_results, 1,
              IF Len(unique_results) > RESULT_CAP THEN RESULT_CAP
              ELSE Len(unique_results))

\* Variant: the thresholds are exclusive.
Confidence_Exclusive(n) ==
    IF n > HIGH_CONFIDENCE_SOURCES THEN "high"
    ELSE IF n > MEDIUM_CONFIDENCE_SOURCES THEN "medium" ELSE "low"

\* "high" if n >= 5 else "medium" if n >= 3 else "low"
Confidence(n) ==
    IF n >= HIGH_CONFIDENCE_SOURCES THEN "high"
    ELSE IF n >= MEDIUM_CONFIDENCE_SOURCES THEN "medium" ELSE "low"

\* response after response["search_metadata"] = {...} and
\* response["_raw_search_results"] = search_results: whatever
\* search_metadata the generator wrote is replaced.
Findings(search) ==
    [empty |-> FALSE,
     search_metadata |-> [sources_found |-> Len(SearchResults(search)),
                          confidence |-> Confidence(Len(SearchResults(search)))],
     raw_search_results |-> SearchResults(search)]

\* ResearchAgent.run over the searches and the generated responses.  A
\* response without the keys the completion log reads raises after the
\* findings were stored.
Discovery(searches, responses) ==
    /\ pc = "research"
    /\ UNCHANGED serviceVars
    /\ LET logs1 == log_action(agent_logs, "ResearchAgent", "start", iteration)
       IN \/ \E search \in searches, response \in responses :
               LET input == [search |-> search, response |-> response]
               IN IF response.complete /\ response.scope
                    THEN /\ research_findings' = Findings(search)
                         /\ agent_logs' = log_action(logs1, "ResearchAgent",
                                                     "completed", iteration)
                         /\ outcome' = [agent |-> "ResearchAgent", status |-> "ok",
                                        reported |-> FALSE, input |-> input]
                         /\ UNCHANGED errors
                    ELSE /\ Len(errors) < MaxFailures
                         /\ errors' = add_error(errors, "ResearchAgent",
                                                ErrorText("research"))
                         /\ agent_logs' = logs1
                         /\ research_findings' =
                              IF response.complete THEN Findings(search)
                              ELSE research_findings
                         /\ outcome' = [agent |-> "ResearchAgent",
                                        status |-> IF response.complete
                                                     THEN "log_error"
                                                     ELSE "missing_key",
                                        reported |-> FALSE, input |-> input]
          \/ /\ StageFails("research", logs1)
             /\ UNCHANGED research_findings
    /\ pc' = NextNode("research", "")
    /\ UNCHANGED <<MAX_ITERATIONS, QUALITY_THRESHOLD, draft_curriculum,
                   expert_feedback, quality_review, iteration, approved,
                   final_output, completed_at, result, raised>>

ResearchRun ==
    Discovery({ScenarioSearch},
              {[complete |-> TRUE, scope |-> TRUE, claimed |-> ""]})

\* Variant: Structuring does not count its entry.
IterationOnEntry_NotCounted(iter) == iter

\* state["iteration"] = state.get("iteration", 0) + 1, before the try block.
IterationOnEntry(iter) == iter + 1

\* curriculum.py:169  required_keys
REQUIRED_KEYS == {"id", "title", "phases", "total_tasks", "estimated_hours"}

\* A generated document: the top-level keys it has, the total it declares
\* and its phases, each phase being the number of its tasks (-1: the phase
\* has no "tasks" key, 0: an empty task list).  The fields of a key that is
\* missing are not read.
Documents ==
    {[keys |-> REQUIRED_KEYS, declared |-> d, phases |-> ph] :
        d \in 0..MaxTasks,
        ph \in UNION {[1..n -> -1..MaxTasks] : n \in 0..MaxPhaseCount}}
      \cup {[keys |-> REQUIRED_KEYS \ {k}, declared |-> 0, phases |-> <<1>>] :
              k \in REQUIRED_KEYS}

\* The document of the end-to-end scenario: 2 phases with 3 and 4 tasks.
ScenarioDocument == [keys |-> REQUIRED_KEYS, declared |-> 0, phases |-> <<3, 4>>]

\* for key in required_keys: if key not in response: raise ValueError
MissingKeys(doc) == REQUIRED_KEYS \ doc.keys

\* The loop over response["phases"] runs to its end: for no phase
\* `"tasks" not in phase or not phase["tasks"]`.
EveryPhaseHasTasks(doc) == \A i \in DOMAIN doc.phases : doc.phases[i] > 0

\* Variant: the declared total is kept.
TotalTasks_AsDeclared(doc) == doc.declared

\* total_tasks += len(phase["tasks"]) over the phases.
TotalTasks(doc) == SumSeq(doc.phases)

\* The "resources" lists of a generated document, by the position of the
\* task in document order; a task outside the domain has no "resources"
\* key, and a document without the field has no such task.  A resource is
\* written as its url.
GeneratedResources(doc) ==
    IF "resources" \in DOMAIN doc THEN doc.resources ELSE <<>>

\* task.get("resources", []) of the task at position i.
TaskResources(by_task, i) ==
    IF i \in DOMAIN by_task THEN by_task[i] ELSE <<>>

\* response after response["total_tasks"] = total_tasks: the document the
\* enrichment step receives.
Draft(doc, att) ==
    [empty |-> FALSE, attempt |-> att, phases |-> doc.phases,
     total_tasks |-> TotalTasks(doc), resources |-> GeneratedResources(doc)]

(* ------------- curriculum.py: _enrich_resources_with_search ---------- *)
\* curriculum.py:234  if searched_concepts >= 5: break
SEARCH_LIMIT == 5
\* curriculum.py:251  for result in results[:2]
TOP_RESULTS == 2
\* curriculum.py:262  current_resources[:5]
MAX_TASK_RESOURCES == 5

\* s[:n]
Slice(s, n) == SubSeq(s, 1, IF Len(s) < n THEN Len(s) ELSE n)

\* What search_documentation(query, max_results=2) does for one task: it
\* raises, or returns filtered[:max_results], a list of at most two results
\* (possibly empty), each written as its url.
NoResults == [raises |-> FALSE, results |-> <<>>]

\* The answer to the search of the task at position i; searches beyond the
\* listed answers return nothing.
AnswerOf(answers, i) == IF i \in DOMAIN answers THEN answers[i] ELSE NoResults

\* for result in results[:2]: if not any(r.get("url") == url for r in
\* current_resources): current_resources.append({...})
RECURSIVE AppendNew(_, _)
AppendNew(current_resources, found) ==
    IF found = <<>> THEN current_resources
    ELSE AppendNew(IF \E k \in DOMAIN current_resources :
                         current_resources[k] = Head(found)
                     THEN current_resources
                     ELSE Append(current_resources, Head(found)),
                   Tail(found))

\* Variant: a search that raises abandons the rest of the enrichment.
AfterRaise_Abandon(walk) == [walk EXCEPT !.searched_concepts = SEARCH_LIMIT]

\* except Exception as e: logger.warning(...); continue
AfterRaise(walk) == walk

\* searched_concepts += 1, inside `if results:`.
CountSearch(walk, answer) ==
    IF ~answer.raises /\ answer.results # <<>>
      THEN [walk EXCEPT !.searched_concepts = @ + 1]
      ELSE walk

\* The body of the inner loop for the task at position i, past the limit
\* test: one search_documentation call, then the update of the task's
\* resources.
EnrichTask(walk, i, answer) ==
    LET issued == [walk EXCEPT !.searches = Append(@, i)]
    IN IF answer.raises THEN AfterRaise(issued)
       ELSE IF answer.results = <<>> THEN CountSearch(issued, answer)
       ELSE CountSearch(
              [issued EXCEPT
                 !.resources =
                     [j \in DOMAIN @ \cup {i} |->
                        IF j = i
                          THEN Slice(AppendNew(TaskResources(@, i),
                                               Slice(answer.results, TOP_RESULTS)),
                                     MAX_TASK_RESOURCES)
                          ELSE @[j]],
                 !.assigned = @ \cup {i}],
              answer)

\* The inner loop over the tasks t..count of the phase whose first task is
\* at position offset + 1; the limit test leaves this loop only.
RECURSIVE EnrichPhase(_, _, _, _, _)
EnrichPhase(walk, offset, t, count, answers) ==
    IF t > count THEN walk
    ELSE IF walk.searched_concepts >= SEARCH_LIMIT THEN walk
    ELSE EnrichPhase(EnrichTask(walk, offset + t, AnswerOf(answers, offset + t)),
                     offset, t + 1, count, answers)

\* The outer loop over the phases p..Len(phases).
RECURSIVE EnrichPhases(_, _, _, _, _)
EnrichPhases(walk, phases, p, offset, answers) ==
    IF p > Len(phases) THEN walk
    ELSE EnrichPhases(EnrichPhase(walk, offset, 1, phases[p], answers),
                      phases, p + 1, offset + phases[p], answers)

\* The walk of _enrich_resources_with_search over a curriculum: the
\* resources of its tasks, the positions of the tasks it searched for, in
\* call order, searched_concepts and the tasks whose "resources" key was
\* assigned.
EnrichWalk(curriculum, answers) ==
    EnrichPhases([resources |-> curriculum.resources,
                  searches |-> <<>>, searched_concepts |-> 0,
                  assigned |-> {}],
                 curriculum.phases, 1, 0, answers)

\* The curriculum after the walk of _enrich_resources_with_search.
Enriched(curriculum, walk) == [curriculum EXCEPT !.resources = walk.resources]

(* ------------------- curriculum.py: the messages -------------------- *)
\* issue['severity'].upper()
Upper(severity) ==
    CASE severity = "high" -> "HIGH"
      [] severity = "low" -> "LOW"
      [] OTHER -> severity

\* f"\n- {issue['severity'].upper()}: {issue['issue']}", followed by
\* f" Suggestion: {issue['suggestion']}" if issue.get("suggestion").
IssueLine(issue) ==
    <<Upper(issue.severity), issue.issue>>
      \o (IF issue.suggestion # "" THEN <<"Suggestion", issue.suggestion>>
                                   ELSE <<>>)

\* The text appended to the system prompt: empty unless iteration > 1 and
\* the stored expert_feedback has a non-empty "issues" list.
ExpertFeedbackText(st) ==
    IF st.iteration > 1 /\ ~st.expert_feedback.empty
         /\ st.expert_feedback.issues # <<>>
      THEN <<[iteration |-> st.iteration,
              lines |-> [k \in DOMAIN st.expert_feedback.issues |->
                           IssueLine(st.expert_feedback.issues[k])]]>>
      ELSE <<>>

\* The messages CurriculumAgent.run passes to generate_json, from the
\* workflow state st it was given (iteration already incremented).
StructuringMessages(st) ==
    <<[role |-> "system", research_findings |-> st.research_findings,
       expert_feedback |-> ExpertFeedbackText(st)],
      [role |-> "user", topic |-> "topic", attempt |-> st.iteration]>>

\* The keys of the workflow state as a Structuring execution that counted
\* its entry as iteration iter has them.
StateAt(iter) ==
    [iteration |-> iter, research_findings |-> research_findings,
     draft_curriculum |-> draft_curriculum,
     expert_feedback |-> expert_feedback, quality_review |-> quality_review]

\* CurriculumAgent.run over the documents the generator may return and the
\* answers the documentation search may give.  outcome records what the
\* execution sent out: the messages passed to generate_json and the
\* search_documentation calls of the enrichment step.
CurriculumDesign(docs, answer_lists) ==
    /\ pc = "curriculum"
    /\ UNCHANGED serviceVars
    /\ iteration' = IterationOnEntry(iteration)
    /\ LET logs1 == log_action(agent_logs, "CurriculumAgent", "start", iteration)
       IN \/ \E doc \in docs :
               IF MissingKeys(doc) = {} /\ EveryPhaseHasTasks(doc)
                 THEN \E answers \in answer_lists :
                      \E walk \in {EnrichWalk(Draft(doc, iteration'), answers)} :
                      /\ draft_curriculum' = Enriched(Draft(doc, iteration'), walk)
                      /\ agent_logs' = log_action(logs1, "CurriculumAgent",
                                                  "completed", iteration')
                      /\ outcome' = [agent |-> "CurriculumAgent", status |-> "ok",
                                     reported |-> FALSE, doc |-> doc,
                                     messages |->
                                       StructuringMessages(StateAt(iteration')),
                                     answers |-> answers,
                                     searches |-> walk.searches,
                                     assigned |-> walk.assigned]
                      /\ UNCHANGED errors
                 ELSE /\ Len(errors) < MaxFailures
                      /\ errors' = add_error(errors, "CurriculumAgent",
                                             ErrorText("curriculum"))
                      /\ agent_logs' = logs1
                      /\ outcome' = [agent |-> "CurriculumAgent",
                                     status |-> IF MissingKeys(doc) # {}
                                                  THEN "missing_key"
                                                  ELSE "no_tasks",
                                     reported |-> FALSE, doc |-> doc,
                                     messages |->
                                       StructuringMessages(StateAt(iteration'))]
                      /\ UNCHANGED draft_curriculum
          \/ /\ StageFails("curriculum", logs1)
             /\ UNCHANGED draft_curriculum
    /\ pc' = NextNode("curriculum", "")
    /\ UNCHANGED <<MAX_ITERATIONS, QUALITY_THRESHOLD, research_findings,
                   expert_feedback, quality_review, approved, final_output,
                   completed_at, result, raised>>

\* The scenario's Structuring: its searches return nothing.
CurriculumRun == CurriculumDesign({ScenarioDocument}, {<<>>})

\* ExpertAgent.run over the "issues" lists the generator may return.
ExpertReview(issue_lists) ==
    /\ pc = "expert"
    /\ UNCHANGED serviceVars
    /\ LET logs1 == log_action(agent_logs, "ExpertAgent", "start", iteration)
       IN \/ /\ \E issues \in issue_lists :
                  expert_feedback' = [empty |-> FALSE,
                                      draft |-> draft_curriculum.attempt,
                                      issues |-> issues]
             /\ agent_logs' = log_action(logs1, "ExpertAgent", "completed", iteration)
             /\ outcome' = [agent |-> "ExpertAgent", status |-> "ok",
                            reported |-> FALSE]
             /\ UNCHANGED errors
          \/ /\ StageFails("expert", logs1)
             /\ UNCHANGED expert_feedback
    /\ pc' = NextNode("expert", "")
    /\ UNCHANGED <<MAX_ITERATIONS, QUALITY_THRESHOLD, research_findings,
                   draft_curriculum, quality_review, iteration, approved,
                   final_output, completed_at, result, raised>>

\* QualityAgent.run over the score maps the generator may return.
QualityRun(maps, violation_lists) ==
    /\ pc = "quality"
    /\ UNCHANGED serviceVars
    /\ LET logs1 == log_action(agent_logs, "QualityAgent", "start", iteration)
       IN \/ \E scores \in maps, rep \in BOOLEAN, violations \in violation_lists :
               \E score \in RoundedAverages(scores) :
                 LET verdict == ComputeApproved(rep, score, QUALITY_THRESHOLD, scores)
                 IN /\ quality_review' = [empty |-> FALSE, approved |-> verdict,
                                          score |-> score, scores |-> scores,
                                          violations |-> violations,
                                          draft |-> draft_curriculum.attempt]
                    /\ approved' = ForcedApproval(verdict, iteration)
                    /\ agent_logs' = log_action(logs1, "QualityAgent", "completed", iteration)
                    /\ outcome' = [agent |-> "QualityAgent", status |-> "ok",
                                   reported |-> rep]
                    /\ UNCHANGED errors
          \/ /\ StageFails("quality", logs1)
             /\ UNCHANGED <<quality_review, approved>>
    /\ pc' = "should_continue"
    /\ UNCHANGED <<MAX_ITERATIONS, QUALITY_THRESHOLD, research_findings,
                   draft_curriculum, expert_feedback, iteration, final_output,
                   completed_at, result, raised>>

\* The scenario's Technical Review and Quality Gate: no issue, no violation.
ExpertRun == ExpertReview({<<>>})

QualityStage == QualityRun(RunScoreMaps, {<<>>})

(* ----------------------- graph.py: routing -------------------------- *)
\* The conditional edge out of "quality".
ShouldContinue ==
    /\ pc = "should_continue"
    /\ UNCHANGED serviceVars
    /\ pc' = NextNode("quality", should_continue(approved, iteration, MAX_ITERATIONS))
    /\ UNCHANGED <<MAX_ITERATIONS, QUALITY_THRESHOLD, state, outcome, result, raised>>

FinalizeNode ==
    /\ pc = "finalize"
    /\ UNCHANGED serviceVars
    /\ completed_at' = "stamped"
    /\ final_output' = FinalOutput(approved, draft_curriculum)
    /\ pc' = NextNode("finalize", "")
    /\ UNCHANGED <<MAX_ITERATIONS, QUALITY_THRESHOLD, research_findings,
                   draft_curriculum, expert_feedback, quality_review, iteration,
                   approved, errors, agent_logs, outcome, result, raised>>

(* ------------------- path_service.py: generate_path ----------------- *)
\* Variant: the check is `path_data is None`.
NoPathData_NoneOnly(out) == out = <<>>

\* final_state.get("final_output", {}) followed by `if not path_data`.
NoPathData(out) == out = <<>> \/ out[1].empty

BuildResult(out, iter, review, app, max) ==
    [path_data |-> out[1],
     iteration_count |-> iter,
     quality_score |-> IF review.empty THEN 0 ELSE review.score,
     approved |-> app,
     max_iterations_reached |-> (iter >= max)]

\* workflow.ainvoke has returned; path_data is read from the final state.
CheckOutput ==
    /\ pc = "END"
    /\ UNCHANGED serviceVars
    /\ IF NoPathData(final_output)
         THEN /\ raised' = "no_path_data"
              /\ pc' = "raised"
         ELSE /\ pc' = "validate_resources"
              /\ UNCHANGED raised
    /\ UNCHANGED <<MAX_ITERATIONS, QUALITY_THRESHOLD, state, outcome, result>>

\* _validate_path_resources: validate_batch returns, or raises on a resource
\* record the generator wrote without a "url" key (resources[i]["url"]).
ValidateResources ==
    /\ pc = "validate_resources"
    /\ UNCHANGED serviceVars
    /\ \/ /\ pc' = "save_path"
          /\ UNCHANGED raised
       \/ /\ raised' = "validation_error"
          /\ pc' = "raised"
    /\ UNCHANGED <<MAX_ITERATIONS, QUALITY_THRESHOLD, state, outcome, result>>

\* _save_path (the persistence collaborator) returns an id or raises; then
\* the result dict is built and returned.
SavePath ==
    /\ pc = "save_path"
    /\ UNCHANGED serviceVars
    /\ \/ /\ result' = <<BuildResult(final_output, iteration, quality_review,
                                     approved, MAX_ITERATIONS)>>
          /\ pc' = "returned"
          /\ UNCHANGED raised
       \/ /\ raised' = "persistence_error"
          /\ pc' = "raised"
          /\ UNCHANGED result
    /\ UNCHANGED <<MAX_ITERATIONS, QUALITY_THRESHOLD, state, outcome>>

(* --------------------------- specifications ------------------------- *)
Next ==
    \/ ResearchRun
    \/ CurriculumRun
    \/ ExpertRun
    \/ QualityStage
    \/ ShouldContinue
    \/ FinalizeNode
    \/ CheckOutput
    \/ ValidateResources
    \/ SavePath

Spec == Init /\ [][Next]_vars

\* The event loop runs the next node whenever one is ready: every stage call
\* returns or raises (each network call carries a timeout).
FairSpec == Spec /\ WF_vars(Next)

\* One Quality Gate execution over every score map, threshold and reported
\* bit, from the state a run is in when it first enters the Gate after
\* Discovery, Structuring and Review succeeded.
GateInit ==
    /\ MAX_ITERATIONS \in 1..2
    /\ QUALITY_THRESHOLD \in Thresholds
    /\ research_findings = Findings(ScenarioSearch)
    /\ draft_curriculum = Draft(ScenarioDocument, 1)
    /\ expert_feedback = [empty |-> FALSE, draft |-> 1, issues |-> <<>>]
    /\ quality_review = EmptyReview
    /\ iteration = 1
    /\ approved = FALSE
    /\ final_output = <<>>
    /\ completed_at = "null"
    /\ errors = <<>>
    /\ agent_logs =
         log_action(log_action(log_action(log_action(log_action(log_action(<<>>,
             "ResearchAgent", "start", 0), "ResearchAgent", "completed", 0),
             "CurriculumAgent", "start", 0), "CurriculumAgent", "completed", 1),
             "ExpertAgent", "start", 1), "ExpertAgent", "completed", 1)
    /\ pc = "quality"
    /\ outcome = [agent |-> "ExpertAgent", status |-> "ok", reported |-> FALSE]
    /\ result = <<>>
    /\ raised = ""
    /\ ServicesIdle

QualityGate == QualityRun(AllScoreMaps \cup {ScenarioScores, OneLowScores}, {<<>>})

GateNext ==
    \/ QualityGate
    \/ ShouldContinue
    \/ FinalizeNode

GateSpec == GateInit /\ [][GateNext]_vars

\* Runs of at most two iterations over every generated document.
StructureNext ==
    \/ ResearchRun
    \/ CurriculumDesign(Documents, {<<>>})
    \/ ExpertRun
    \/ QualityStage
    \/ ShouldContinue
    \/ FinalizeNode

StructureInit == Init /\ MAX_ITERATIONS \in 1..2

StructureSpec == StructureInit /\ [][StructureNext]_vars

\* Runs of up to two iterations over the issues the Technical Review and
\* the violations the Quality Gate may report.
IssueLists ==
    {<<>>,
     <<[severity |-> "high", issue |-> "deprecated api", suggestion |-> ""]>>,
     <<[severity |-> "low", issue |-> "task order", suggestion |-> "swap"]>>}

ViolationLists == {<<>>, <<"example code">>, <<"step by step">>}

PromptNext ==
    \/ ResearchRun
    \/ CurriculumRun
    \/ ExpertReview(IssueLists)
    \/ QualityRun({<<78, 90>>}, ViolationLists)
    \/ ShouldContinue
    \/ FinalizeNode

PromptInit == Init /\ MAX_ITERATIONS = 2

PromptSpec == PromptInit /\ [][PromptNext]_vars

\* Discovery and one Structuring execution, over documents of
\* SEARCH_LIMIT + 1 tasks, in one phase or in two, and every combination of
\* search answers: each search raises, returns nothing or returns
\* max_results = 2 results; the first and the last task also have
\* resources of the generator (a repeated url, four urls, six urls) and may
\* be answered by a twice-listed url.
GeneratedLists == {<<>>, <<7, 7>>, <<1, 2, 3, 4>>, <<1, 2, 3, 4, 5, 6>>}

EnrichDocuments ==
    {[keys |-> REQUIRED_KEYS, declared |-> 0, phases |-> ph,
      resources |-> [i \in 1..(SEARCH_LIMIT + 1) |->
                       IF i = 1 THEN first
                       ELSE IF i = SEARCH_LIMIT + 1 THEN last ELSE <<>>]] :
        ph \in {<<SEARCH_LIMIT + 1>>, <<2, SEARCH_LIMIT - 1>>},
        first \in GeneratedLists, last \in GeneratedLists}

TaskAnswers ==
    {[raises |-> TRUE, results |-> <<>>], NoResults,
     [raises |-> FALSE, results |-> <<7, 8>>]}

EnrichAnswers ==
    {[i \in 1..(SEARCH_LIMIT + 1) |->
        IF i = 1 THEN first ELSE IF i = SEARCH_LIMIT + 1 THEN last ELSE mid[i]] :
        mid \in [2..SEARCH_LIMIT -> TaskAnswers],
        first \in TaskAnswers \cup {[raises |-> FALSE, results |-> <<7, 7>>]},
        last \in TaskAnswers \cup {[raises |-> FALSE, results |-> <<7, 7>>]}}

EnrichNext ==
    \/ ResearchRun
    \/ CurriculumDesign(EnrichDocuments, EnrichAnswers)

EnrichInit == Init /\ MAX_ITERATIONS = 1

EnrichSpec == EnrichInit /\ [][EnrichNext]_vars

\* One Discovery execution over every combination of search answers and
\* generated responses.
DiscoveryNext == Discovery([1..QUERY_LIMIT -> QueryAnswers], ResearchResponses)

DiscoveryInit == Init /\ MAX_ITERATIONS = 1

DiscoverySpec == DiscoveryInit /\ [][DiscoveryNext]_vars

(* ----- generation requests side by side on the compiled workflow ----- *)
\* The requests whose runs interleave on the event loop.
Runs == {1, 2}

\* Variant: the two lists are module-level objects.
NewList_ModuleLevel(run, key) == IF key = "errors" THEN 1 ELSE 2

\* "errors": [], "agent_logs": []: each call of create_initial_state makes
\* two new list objects.
NewList(run, key) == IF key = "errors" THEN 2 * run - 1 ELSE 2 * run

\* The dict create_initial_state returns, the two lists by reference.
InitialState(run) ==
    [research_findings |-> EmptyFindings, draft_curriculum |-> EmptyDraft,
     expert_feedback |-> EmptyFeedback, quality_review |-> <<>>,
     iteration |-> 0, approved |-> FALSE, final_output |-> <<>>,
     completed_at |-> "null", errors |-> NewList(run, "errors"),
     agent_logs |-> NewList(run, "agent_logs")]

\* A state dict with its lists read through their references.
WithLists(st, objects) ==
    [st EXCEPT !.errors = objects[@], !.agent_logs = objects[@]]

\* A stage's run() up to its generation call: the start entry, and for
\* Structuring the iteration counter.
StageBegin(node, st) ==
    LET logged == [st EXCEPT !.agent_logs =
                      log_action(@, AgentName(node), "start", st.iteration)]
    IN IF node = "curriculum"
         THEN [logged EXCEPT !.iteration = IterationOnEntry(@)]
         ELSE logged

\* A stage's run() from the return of its generation call: the output key
\* and the completion entry, or the recorded error.
StageEnd(node, st, response) ==
    IF ~response.ok
      THEN [st EXCEPT !.errors = add_error(@, AgentName(node), ErrorText(node))]
      ELSE LET stored ==
                 CASE node = "research" ->
                        [st EXCEPT !.research_findings = Findings(ScenarioSearch)]
                   [] node = "curriculum" ->
                        [st EXCEPT !.draft_curriculum =
                                      Draft(ScenarioDocument, st.iteration)]
                   [] node = "expert" ->
                        [st EXCEPT !.expert_feedback =
                                      [empty |-> FALSE,
                                       draft |-> st.draft_curriculum.attempt]]
                   [] node = "quality" ->
                        [st EXCEPT !.quality_review = <<response.approved>>,
                                   !.approved = ForcedApproval(response.approved,
                                                               st.iteration)]
           IN [stored EXCEPT !.agent_logs =
                  log_action(@, AgentName(node), "completed", st.iteration)]

\* finalize_node.
Finalize(st) ==
    [st EXCEPT !.completed_at = "stamped",
               !.final_output = FinalOutput(st.approved, st.draft_curriculum)]

\* The route out of a node: should_continue after "quality".
Route(node, st) ==
    IF node = "quality"
      THEN should_continue(st.approved, st.iteration, MAX_ITERATIONS)
      ELSE ""

\* Variant: "research" has a second edge, to "expert".
Successors_FanOut(node, route) ==
    IF node = "research" THEN {"curriculum", "expert"}
    ELSE {NextNode(node, route)}

\* The nodes the graph schedules after `node`: one edge leaves each node.
Successors(node, route) == {NextNode(node, route)}

\* What generate_json does for a stage: it returns a document (for the
\* Quality Gate with the verdict the stage computes from it) or raises.
StageResponses(node) ==
    IF node = "quality"
      THEN {[ok |-> TRUE, approved |-> TRUE], [ok |-> TRUE, approved |-> FALSE],
            [ok |-> FALSE, approved |-> FALSE]}
      ELSE {[ok |-> TRUE, approved |-> FALSE], [ok |-> FALSE, approved |-> FALSE]}

\* The node function wrote `st`: the values of the two lists go to the
\* list objects, the other keys to the run's state.
Written(run, st, active, calling, responses) ==
    /\ runs' = [runs EXCEPT ![run] =
                  [state |-> [st EXCEPT !.errors = runs[run].state.errors,
                                        !.agent_logs = runs[run].state.agent_logs],
                   active |-> active, calling |-> calling,
                   responses |-> responses]]
    /\ lists' = [lists EXCEPT ![runs[run].state.errors] = st.errors,
                              ![runs[run].state.agent_logs] = st.agent_logs]
    /\ UNCHANGED <<followedVars, llmVars, jsonVars, batchVars>>

\* A scheduled stage of a run starts and awaits its generation call.
BeginStage(run, node) ==
    /\ node \in runs[run].active \cap Stages
    /\ node \notin runs[run].calling
    /\ Written(run, StageBegin(node, WithLists(runs[run].state, lists)),
               runs[run].active, runs[run].calling \cup {node},
               runs[run].responses)

\* The generation call of a stage returns or raises (all its retries
\* done), the stage finishes and the graph schedules what follows.
EndStage(run, node) ==
    /\ node \in runs[run].calling
    /\ \E response \in StageResponses(node) :
         /\ response.ok \/ Len(lists[runs[run].state.errors]) < MaxFailures
         /\ LET st == StageEnd(node, WithLists(runs[run].state, lists), response)
            IN Written(run, st,
                       (runs[run].active \ {node})
                          \cup Successors(node, Route(node, st)),
                       runs[run].calling \ {node},
                       Append(runs[run].responses, response))

FinalizeRun(run) ==
    /\ "finalize" \in runs[run].active
    /\ Written(run, Finalize(WithLists(runs[run].state, lists)),
               (runs[run].active \ {"finalize"}) \cup Successors("finalize", ""),
               runs[run].calling, runs[run].responses)

\* generate_path, twice: initial_state = create_initial_state(...);
\* workflow = get_workflow() (the same compiled graph and stage objects).
RunsInit ==
    /\ MAX_ITERATIONS = 2
    /\ QUALITY_THRESHOLD = DEFAULT_QUALITY_THRESHOLD
    /\ create_initial_state
    /\ pc = "idle"
    /\ outcome = NoOutcome
    /\ result = <<>>
    /\ raised = ""
    /\ LlmIdle /\ JsonIdle /\ BatchIdle
    /\ runs = [run \in Runs |->
                 [state |-> InitialState(run), active |-> {"research"},
                  calling |-> {}, responses |-> <<>>]]
    /\ lists = [ref \in {NewList(run, key) : run \in Runs,
                                              key \in {"errors", "agent_logs"}}
                 |-> <<>>]

RunsNext ==
    \/ \E run \in Runs, node \in Stages : BeginStage(run, node)
    \/ \E run \in Runs, node \in Stages : EndStage(run, node)
    \/ \E run \in Runs : FinalizeRun(run)

RunsSpec == RunsInit /\ [][RunsNext]_vars

(* ------------- app/core/llm.py: errors of generate() ---------------- *)
\* The message of an LLMException is a sequence of pieces of text: the
\* markers the retry wrapper tests for, the phrasings _extract_retry_delay
\* searches for (with the number N they carry), and other text.
Tok(t) == [tok |-> t, n |-> 0]
Phrase(t, n) == [tok |-> t, n |-> n]

\* generate(): the message each except clause builds around the text `tail`
\* that the exception or the server supplied.  A 429 answer raises inside
\* the try block and is wrapped once more by `except Exception`.
generate_error(kind, tail) ==
    [kind |-> kind,
     str |-> CASE kind \in {"connect", "read"} -> <<Tok("CONNECTION_ERROR")>> \o tail
               [] kind = "timeout" -> <<Tok("TIMEOUT_ERROR")>> \o tail
               [] kind = "rate_limited" ->
                    <<Tok("Failed to generate response"), Tok("429"),
                      Tok("RATE_LIMITED")>> \o tail
               [] kind = "http" -> <<Tok("HTTP error")>> \o tail
               [] OTHER -> <<Tok("Failed to generate response")>> \o tail]

\* No exception: the call returned.
NoError == [kind |-> "none", str |-> <<>>]

\* `marker in error_str`
Contains(str, marker) == \E i \in DOMAIN str : str[i].tok = marker

(* --------------- app/core/llm.py: _extract_retry_delay -------------- *)
\* Variant: "after N seconds" is searched before "RetryInfo...Ns".
PATTERNS_AfterFirst == <<"retry in", "retryDelay", "after", "RetryInfo">>

\* patterns = [r'retry in ([\d.]+)s', r'retryDelay[^\d]*(\d+)',
\*             r'RetryInfo.*?(\d+)s', r'after (\d+) seconds']
PATTERNS == <<"retry in", "retryDelay", "RetryInfo", "after">>

\* The pieces of text a pattern matches.  "retry in N.N.Ns" is matched by
\* the first pattern ([\d.]+ admits several dots); float() rejects it.
Matches(pattern, piece) ==
    CASE pattern = "retry in" -> piece.tok \in {"retry in Ns", "retry in N.N.Ns"}
      [] pattern = "retryDelay" -> piece.tok = "retryDelay: N"
      [] pattern = "RetryInfo" -> piece.tok = "RetryInfo Ns"
      [] pattern = "after" -> piece.tok = "after N seconds"
      [] OTHER -> FALSE

\* float(match.group(1)) does not raise ValueError.
Parses(piece) == piece.tok # "retry in N.N.Ns"

\* re.search: the leftmost match of the pattern, 0 when there is none.
Search(pattern, str) ==
    IF \E i \in DOMAIN str : Matches(pattern, str[i])
      THEN CHOOSE i \in DOMAIN str :
             /\ Matches(pattern, str[i])
             /\ \A j \in 1..(i - 1) : ~Matches(pattern, str[j])
      ELSE 0

\* llm.py:190  return 15.0
DEFAULT_RETRY_DELAY == 15

\* for pattern in patterns: ... return delay / continue; return 15.0
RECURSIVE ExtractFrom(_, _)
ExtractFrom(p, str) ==
    IF p > Len(PATTERNS) THEN DEFAULT_RETRY_DELAY
    ELSE LET i == Search(PATTERNS[p], str)
         IN IF i # 0 /\ Parses(str[i]) THEN str[i].n
            ELSE ExtractFrom(p + 1, str)

extract_retry_delay(error_message) == ExtractFrom(1, error_message)

(* --------------- app/core/llm.py: generate_with_retry --------------- *)
\* llm.py:195  max_retries: int = 3
DEFAULT_MAX_RETRIES == 3
\* llm.py:210  min(2 ** attempt, 10)
CONNECTION_BACKOFF_CAP == 10
\* llm.py:218  min(2 ** attempt, 30)
BACKOFF_CAP == 30

Min(a, b) == IF a <= b THEN a ELSE b

\* 2 ** k
RECURSIVE Pow2(_)
Pow2(k) == IF k = 0 THEN 1 ELSE 2 * Pow2(k - 1)

\* Variant: one attempt more than the ceiling.
AttemptsAllowed_OneMore(n) == n + 1

\* for attempt in range(max_retries)
AttemptsAllowed(n) == n

\* retry_delay = min(2 ** attempt, 10)
ConnectionBackoff(att) == Min(Pow2(att), CONNECTION_BACKOFF_CAP)

\* backoff = min(2 ** attempt, 30)
Backoff(att) == Min(Pow2(att), BACKOFF_CAP)

\* The except clause of the loop body: <<d>> when it sleeps d seconds, <<>>
\* when it does not sleep.
RetryWait(error_str, att, max) ==
    IF Contains(error_str, "CONNECTION_ERROR") \/ Contains(error_str, "TIMEOUT_ERROR")
      THEN <<ConnectionBackoff(att)>>
    ELSE IF Contains(error_str, "429") \/ Contains(error_str, "RATE_LIMITED")
      THEN <<extract_retry_delay(error_str)>>
    ELSE IF att < max - 1
      THEN <<Backoff(att)>>
    ELSE <<>>

\* The sleeps of one loop iteration, as entries of `waits`.
WaitEntries(error_str, att, max) ==
    LET w == RetryWait(error_str, att, max)
    IN IF w = <<>> THEN <<>> ELSE <<[after |-> att, seconds |-> w[1]]>>

\* The text generate() returns on success.
Texts == {"content"}

\* One iteration of the loop: one generate() call, which returns text or
\* raises one of the errors `errs`; on an error, the sleep of its branch.
RetryAttempt(errs) ==
    /\ rpc = "loop"
    /\ attempt < AttemptsAllowed(max_retries)
    /\ calls' = calls + 1
    /\ \/ \E text \in Texts :
            /\ history' = Append(history, [ok |-> TRUE, text |-> text,
                                           error |-> NoError])
            /\ rtext' = <<text>>
            /\ rpc' = "returned"
            /\ UNCHANGED <<attempt, waits, last_error>>
       \/ \E e \in errs :
            /\ history' = Append(history, [ok |-> FALSE, text |-> "", error |-> e])
            /\ last_error' = <<e>>
            /\ waits' = waits \o WaitEntries(e.str, attempt, max_retries)
            /\ attempt' = attempt + 1
            /\ UNCHANGED <<rtext, rpc>>
    /\ UNCHANGED <<max_retries, workflowVars, jsonVars, batchVars>>

\* raise LLMException(f"Failed after {max_retries} attempts: {last_error}")
RetryExhausted ==
    /\ rpc = "loop"
    /\ attempt >= AttemptsAllowed(max_retries)
    /\ rpc' = "raised"
    /\ rtext' = last_error
    /\ UNCHANGED <<max_retries, attempt, calls, waits, last_error, history,
                   workflowVars, jsonVars, batchVars>>

(* --------------- generate_with_retry: specifications ---------------- *)
\* No workflow run is being followed.
WorkflowIdle ==
    /\ MAX_ITERATIONS = 0
    /\ QUALITY_THRESHOLD = DEFAULT_QUALITY_THRESHOLD
    /\ create_initial_state
    /\ pc = "idle"
    /\ outcome = NoOutcome
    /\ result = <<>>
    /\ raised = ""
    /\ RunsIdle

\* The delays a server suggests, and the pieces of text of a 429 payload
\* (which may itself quote one of the markers).
DelayValues == {3, 20}
PhrasePieces ==
    {Phrase(t, n) : t \in {"retry in Ns", "retryDelay: N", "RetryInfo Ns",
                           "after N seconds"},
                    n \in DelayValues}
      \cup {Tok("retry in N.N.Ns"), Tok("text"), Tok("TIMEOUT_ERROR")}
Payloads == UNION {[1..k -> PhrasePieces] : k \in 0..MaxPhrases}

\* One error per except clause of generate(); a 429 with and without a
\* suggested delay; an HTTP error whose body text contains "429".
ConnectError == generate_error("connect", <<Tok("text")>>)
RunErrors ==
    {ConnectError,
     generate_error("read", <<Tok("text")>>),
     generate_error("timeout", <<Tok("text")>>),
     generate_error("rate_limited", <<Tok("text")>>),
     generate_error("rate_limited", <<Phrase("retry in Ns", 20)>>),
     generate_error("http", <<Tok("text")>>),
     generate_error("http", <<Tok("429")>>),
     generate_error("unknown", <<Tok("text")>>)}
RateLimitErrors == {generate_error("rate_limited", p) : p \in Payloads}

\* A whole call, for every ceiling 0..MaxRetries.
RetryInit ==
    /\ WorkflowIdle
    /\ JsonIdle
    /\ BatchIdle
    /\ max_retries \in 0..MaxRetries
    /\ attempt = 0
    /\ calls = 0
    /\ waits = <<>>
    /\ last_error = <<>>
    /\ rpc = "loop"
    /\ rtext = <<>>
    /\ history = <<>>

RetryRun == RetryAttempt(RunErrors)

RetryNext ==
    \/ RetryRun
    \/ RetryExhausted

RetrySpec == RetryInit /\ [][RetryNext]_vars

\* The sleeps of k failed attempts on connection errors.
RECURSIVE PriorWaits(_, _)
PriorWaits(k, max) ==
    IF k = 0 THEN <<>>
    ELSE PriorWaits(k - 1, max) \o WaitEntries(ConnectError.str, k - 1, max)

\* The loop after `attempt` iterations that each failed on a connection
\* error.
LoopState ==
    /\ WorkflowIdle
    /\ JsonIdle
    /\ BatchIdle
    /\ attempt \in 0..(max_retries - 1)
    /\ calls = attempt
    /\ history = [i \in 1..attempt |-> [ok |-> FALSE, text |-> "",
                                        error |-> ConnectError]]
    /\ waits = PriorWaits(attempt, max_retries)
    /\ last_error = IF attempt = 0 THEN <<>> ELSE <<ConnectError>>
    /\ rpc = "loop"
    /\ rtext = <<>>

\* The last two iterations of the loop, for every ceiling 1..MaxLoopRetries.
BackoffInit ==
    /\ max_retries \in 1..MaxLoopRetries
    /\ LoopState
    /\ attempt >= max_retries - 2

BackoffSpec == BackoffInit /\ [][RetryNext]_vars

\* The last iteration of the loop, over every 429 payload.
DelayInit ==
    /\ max_retries \in 1..2
    /\ LoopState
    /\ attempt = max_retries - 1

RetryRateLimited == RetryAttempt(RateLimitErrors)

DelayNext ==
    \/ RetryRateLimited
    \/ RetryExhausted

DelaySpec == DelayInit /\ [][DelayNext]_vars

(* ------------------ app/core/llm.py: generate_json ------------------ *)
\* A generated text is a sequence of pieces: a brace, a run of three
\* backticks, the word json, blank space, or other text ("x": text that is
\* not a JSON document by itself, such as noise or the members of an
\* object).  "FENCE" is the run of three backticks; a json fence is the
\* piece "FENCE" followed by the piece "json".
Pieces == {"{", "}", "FENCE", "json", "x", " "}

\* str.strip()
RECURSIVE StripLeft(_)
StripLeft(str) ==
    IF str # <<>> /\ Head(str) = " " THEN StripLeft(Tail(str)) ELSE str
RECURSIVE StripRight(_)
StripRight(str) ==
    IF str # <<>> /\ str[Len(str)] = " "
      THEN StripRight(SubSeq(str, 1, Len(str) - 1))
      ELSE str
Strip(str) == StripRight(StripLeft(str))

\* str.find(piece, start), as a 1-based position; 0 for -1.
Find(str, piece, start) ==
    IF \E i \in start..Len(str) : str[i] = piece
      THEN CHOOSE i \in start..Len(str) :
             /\ str[i] = piece
             /\ \A j \in start..(i - 1) : str[j] # piece
      ELSE 0

\* response.find of a json fence, as a 1-based position; 0 for -1.
IsJsonFence(str, i) == str[i] = "FENCE" /\ i < Len(str) /\ str[i + 1] = "json"
FindJsonFence(str) ==
    IF \E i \in DOMAIN str : IsJsonFence(str, i)
      THEN CHOOSE i \in DOMAIN str :
             /\ IsJsonFence(str, i)
             /\ \A j \in 1..(i - 1) : ~IsJsonFence(str, j)
      ELSE 0

\* response[start:end].strip() when the closing fence is found at `end`,
\* the response as it is when end == -1.
Between(str, start) ==
    LET end == Find(str, "FENCE", start)
    IN IF end # 0 THEN Strip(SubSeq(str, start, end - 1)) ELSE str

\* if a json fence is in the response: ... elif a fence is in it: ...
FencedContent(str) ==
    IF FindJsonFence(str) # 0 THEN Between(str, FindJsonFence(str) + 2)
    ELSE IF Find(str, "FENCE", 1) # 0 THEN Between(str, Find(str, "FENCE", 1) + 1)
    ELSE str

\* The for loop over response[start:]: the position of the "}" at which
\* brace_count returns to 0, 0 when the loop ends without a break.
RECURSIVE ScanBraces(_, _, _)
ScanBraces(str, i, brace_count) ==
    IF i > Len(str) THEN 0
    ELSE IF str[i] = "{" THEN ScanBraces(str, i + 1, brace_count + 1)
    ELSE IF str[i] = "}"
      THEN IF brace_count - 1 = 0 THEN i
           ELSE ScanBraces(str, i + 1, brace_count - 1)
    ELSE ScanBraces(str, i + 1, brace_count)

\* if not response.startswith("{"): ... response = response[start:end],
\* where end stays at start when no "}" closes the first "{".
BraceSpan(str) ==
    IF str # <<>> /\ Head(str) = "{" THEN str
    ELSE LET start == Find(str, "{", 1)
         IN IF start = 0 THEN str
            ELSE LET close == ScanBraces(str, start, 0)
                 IN IF close = 0 THEN <<>> ELSE SubSeq(str, start, close)

\* Lines 122-152: the text that is tested for emptiness and parsed.
CleanResponse(text) == Strip(BraceSpan(FencedContent(Strip(text))))

\* json.loads(response) returns: the text is one object, its first brace
\* closed by its last piece, with no backticks inside.
JsonLoads(str) ==
    /\ str # <<>>
    /\ Head(str) = "{"
    /\ ScanBraces(str, 1, 0) = Len(str)
    /\ \A i \in DOMAIN str : str[i] \notin {"FENCE", "json"}

\* json_messages = messages.copy(): a new list of the same references.
ListCopy(list) == list

\* json_messages[-1]["content"] += "...", on the dict the last reference
\* of the list points to, when the list is non-empty and that dict's role
\* is "user"; `instructions` counts the JSON-only instructions in a content.
AppendInstruction(list, h) ==
    IF list # <<>> /\ h[list[Len(list)]].role = "user"
      THEN [h EXCEPT ![list[Len(list)]].instructions = @ + 1]
      ELSE h

\* generate_json up to the return of `await self.generate_with_retry(...)`,
\* which returns one of `texts` or raises the exhausted error; `limit` is
\* the number of calls the caller makes with its list.
JsonRequest(texts, limit) ==
    /\ jpc \in {"call", "done"}
    /\ jcount < limit
    /\ jcount' = jcount + 1
    /\ LET json_messages == ListCopy(messages)
       IN /\ heap' = AppendInstruction(json_messages, heap)
          /\ sent' = IF json_messages = <<>> THEN Append(sent, <<>>)
                     ELSE Append(sent, <<heap'[json_messages[Len(json_messages)]]>>)
    /\ jcalls' = 1
    /\ cleaned' = <<>>
    /\ \/ \E text \in texts :
            /\ raw' = text
            /\ jpc' = "generated"
            /\ joutcome' = "none"
       \/ /\ raw' = <<>>
          /\ jpc' = "done"
          /\ joutcome' = "llm_error"
    /\ UNCHANGED <<messages, workflowVars, llmVars, batchVars>>

\* generate_json after the await: clean, test for emptiness, parse.
JsonParse ==
    /\ jpc = "generated"
    /\ cleaned' = CleanResponse(raw)
    /\ joutcome' = IF cleaned' = <<>> THEN "empty"
                   ELSE IF JsonLoads(cleaned') THEN "parsed"
                   ELSE "malformed"
    /\ jpc' = "done"
    /\ UNCHANGED <<messages, heap, sent, raw, jcalls, jcount, workflowVars,
                   llmVars, batchVars>>

(* -------------------- generate_json: specifications ----------------- *)
AllTexts == UNION {[1..k -> Pieces] : k \in 0..MaxTextLen}
\* An object, an object in a json fence, text that is no JSON, an object
\* that is never closed, an empty fenced block, nothing, an object followed
\* by text.
RunTexts ==
    {<<"{", "x", "}">>, <<"FENCE", "json", "{", "}", "FENCE">>, <<"x">>,
     <<"x", "{">>, <<"FENCE", " ", "FENCE">>, <<>>, <<"{", "x", "}", "x">>}

Message(role) == [role |-> role, instructions |-> 0]
\* The message lists of the stage agents (system, user), and lists that are
\* empty or do not end with a user message.
MessageHeaps ==
    {<<>>, <<Message("user")>>, <<Message("system"), Message("user")>>,
     <<Message("user"), Message("assistant")>>}

JsonCallState ==
    /\ WorkflowIdle
    /\ LlmIdle
    /\ BatchIdle
    /\ messages = [i \in DOMAIN heap |-> i]
    /\ sent = <<>>
    /\ raw = <<>>
    /\ cleaned = <<>>
    /\ jpc = "call"
    /\ joutcome = "none"
    /\ jcalls = 0
    /\ jcount = 0

\* One call, over every generated text of at most MaxTextLen pieces.
JsonInit ==
    /\ heap = <<Message("system"), Message("user")>>
    /\ JsonCallState

JsonGenerate == JsonRequest(AllTexts, 1)

JsonNext ==
    \/ JsonGenerate
    \/ JsonParse

JsonSpec == JsonInit /\ [][JsonNext]_vars

\* MaxCalls calls with the same message list.
MessageInit ==
    /\ heap \in MessageHeaps
    /\ JsonCallState

JsonRepeat == JsonRequest(RunTexts, MaxCalls)

MessageNext ==
    \/ JsonRepeat
    \/ JsonParse

MessageSpec == MessageInit /\ [][MessageNext]_vars

(* ------- app/services/validation_service.py: validate_batch -------- *)
\* validation_service.py:35  response.status_code >= 400
ERROR_STATUS == 400

\* What a HEAD or GET request can do: answer with a status code, time out
\* (httpx.TimeoutException), or raise another exception.
StatusCodes == {200, 404}
Answers == [kind : {"status"}, code : StatusCodes]
             \cup {[kind |-> "timeout", code |-> 0], [kind |-> "error", code |-> 0]}

\* No result yet.
NoResult == [url |-> 0, accessible |-> FALSE, status_code |-> 0,
             error |-> "pending"]

\* Variant: the except clauses drop the text of the error.
UrlResult_ErrorTextDropped(url, answer) ==
    [url |-> url,
     accessible |-> (answer.kind = "status" /\ answer.code < ERROR_STATUS),
     status_code |-> answer.code, error |-> "None"]

\* The dict validate_url returns after the last answer it received.
UrlResult(url, answer) ==
    CASE answer.kind = "status" ->
           [url |-> url, accessible |-> (answer.code < ERROR_STATUS),
            status_code |-> answer.code, error |-> "None"]
      [] answer.kind = "timeout" ->
           [url |-> url, accessible |-> FALSE, status_code |-> 0,
            error |-> "Timeout"]
      [] OTHER ->
           [url |-> url, accessible |-> FALSE, status_code |-> 0,
            error |-> "str(e)"]

\* resource["url"] finds the key.
HasUrl(resource) == "url" \in DOMAIN resource

\* What gather keeps for a task that ended with the KeyError of
\* resource["url"] (return_exceptions=True).
TaskException == [url |-> 0, accessible |-> FALSE, status_code |-> 0,
                  error |-> "KeyError"]

\* A request that has been sent and not answered yet, and the last request
\* of a task with its answer filled in.
Sent(method) == [method |-> method, answer |-> [kind |-> "none", code |-> 0]]
Answered(reqs, answer) == [reqs EXCEPT ![Len(reqs)].answer = answer]

\* Variant: a waiting task proceeds only while a second permit is free.
CanAcquire_KeepsOne(p) == p > 1

\* Semaphore.acquire does not block.
CanAcquire(p) == p > 0

\* Variant: leaving the block after a failed probe keeps the permit.
PermitsAfterExit_LeakOnFailure(p, res) ==
    IF res.accessible THEN p + 1 ELSE p

\* Leaving `async with semaphore` (by return or by exception) releases.
PermitsAfterExit(p, res) == p + 1

\* await asyncio.gather(*tasks, ...) returns when every task is done, with
\* a result ("done") or with an exception ("failed").
GatherReady(ts) == \A i \in DOMAIN ts : ts[i] \in {"done", "failed"}

\* Variant: results in reverse order of the tasks.
GatherResults_Reversed(tr) == [i \in DOMAIN tr |-> tr[Len(tr) + 1 - i]]

\* asyncio.gather returns the results in the order of the awaitables.
GatherResults(tr) == tr

\* validate_with_limit enters `async with semaphore` and evaluates
\* resource["url"]: validate_url sends the HEAD request, or the KeyError
\* ends the task and the block is left.
Acquire(i) ==
    /\ bpc = "gather"
    /\ tstate[i] = "pending"
    /\ CanAcquire(permits)
    /\ IF HasUrl(resources[i])
         THEN /\ permits' = permits - 1
              /\ tstate' = [tstate EXCEPT ![i] = "head"]
              /\ requests' = [requests EXCEPT ![i] = <<Sent("HEAD")>>]
              /\ UNCHANGED <<tresult, last_done>>
         ELSE /\ permits' = PermitsAfterExit(permits - 1, TaskException)
              /\ tstate' = [tstate EXCEPT ![i] = "failed"]
              /\ tresult' = [tresult EXCEPT ![i] = TaskException]
              /\ last_done' = i
              /\ UNCHANGED requests
    /\ UNCHANGED <<resources, max_concurrent, bpc, results, workflowVars,
                   llmVars, jsonVars>>

\* The task's probe ends with `answer`: validate_url returns its dict, the
\* title is added, the block is left and the permit released.
Finish(i, answer) ==
    LET res == UrlResult(resources[i].url, answer)
    IN /\ tresult' = [tresult EXCEPT ![i] = res]
       /\ requests' = [requests EXCEPT ![i] = Answered(@, answer)]
       /\ tstate' = [tstate EXCEPT ![i] = "done"]
       /\ permits' = PermitsAfterExit(permits, res)
       /\ last_done' = i

\* Variant: the HEAD answer is always final.
Escalates_Never(answer) == FALSE

\* if response.status_code >= 400: the HEAD answer sends the GET request.
Escalates(answer) == answer.kind = "status" /\ answer.code >= ERROR_STATUS

\* The HEAD request is answered: a status of 400 or more sends the GET
\* request, anything else ends the probe.
HeadAnswered(i) ==
    /\ bpc = "gather"
    /\ tstate[i] = "head"
    /\ \E answer \in Answers :
         IF Escalates(answer)
           THEN /\ tstate' = [tstate EXCEPT ![i] = "get"]
                /\ requests' = [requests EXCEPT ![i] =
                                   Append(Answered(@, answer), Sent("GET"))]
                /\ UNCHANGED <<tresult, permits, last_done>>
           ELSE Finish(i, answer)
    /\ UNCHANGED <<resources, max_concurrent, bpc, results, workflowVars,
                   llmVars, jsonVars>>

\* The GET request is answered.
GetAnswered(i) ==
    /\ bpc = "gather"
    /\ tstate[i] = "get"
    /\ \E answer \in Answers : Finish(i, answer)
    /\ UNCHANGED <<resources, max_concurrent, bpc, results, workflowVars,
                   llmVars, jsonVars>>

\* gather returns and the results are processed in order.  A task that
\* got its url ends with a dict (validate_url catches Exception), which is
\* appended as it is.  For a task that ended with the KeyError the loop
\* evaluates resources[i]["url"] again, and validate_batch raises.
BatchReturn ==
    /\ bpc = "gather"
    /\ GatherReady(tstate)
    /\ IF \E i \in DOMAIN tstate : tstate[i] = "failed"
         THEN /\ bpc' = "raised"
              /\ UNCHANGED results
         ELSE /\ results' = GatherResults(tresult)
              /\ bpc' = "returned"
    /\ UNCHANGED <<resources, max_concurrent, permits, tstate, tresult,
                   requests, last_done, workflowVars, llmVars, jsonVars>>

(* ------------------- validate_batch: specifications ----------------- *)
\* Batches of n resources: n different URLs, or one URL n times.
Batches(n) ==
    {[i \in 1..n |-> [url |-> i]], [i \in 1..n |-> [url |-> 1]]}

\* semaphore = asyncio.Semaphore(max_concurrent); tasks = [...]
BatchInit ==
    /\ WorkflowIdle
    /\ LlmIdle
    /\ JsonIdle
    /\ \E n \in 0..MaxResources : resources \in Batches(n)
    /\ max_concurrent \in 0..MaxConcurrent
    /\ permits = max_concurrent
    /\ tstate = [i \in DOMAIN resources |-> "pending"]
    /\ tresult = [i \in DOMAIN resources |-> NoResult]
    /\ requests = [i \in DOMAIN resources |-> <<>>]
    /\ last_done = 0
    /\ bpc = "gather"
    /\ results = <<>>

BatchNext ==
    \/ \E i \in DOMAIN resources : Acquire(i)
    \/ \E i \in DOMAIN resources : HeadAnswered(i)
    \/ \E i \in DOMAIN resources : GetAnswered(i)
    \/ BatchReturn

BatchSpec == BatchInit /\ [][BatchNext]_vars

\* The event loop runs every task that is ready, and every request is
\* answered or times out (the client has a timeout).
FairBatchSpec == BatchSpec /\ WF_vars(BatchNext)

(* ------- path_service.py: the validation step of generate_path ------ *)
\* validation_service.py:66  max_concurrent: int = 10
DEFAULT_MAX_CONCURRENT == 10

\* Largest number of resource records in a finalized artifact.
MaxPathResources == 2

\* The resource records found in the artifact's tasks, in order: the
\* generator wrote each one with a "url" key or without one.
PathResources ==
    UNION {[1..n -> {[url |-> 1], [title |-> 1]}] : n \in 0..MaxPathResources}

\* if settings.VALIDATE_RESOURCES: _validate_path_resources collects the
\* records and, if there are any, calls validate_batch.
CollectResources ==
    /\ pc = "validate_resources"
    /\ bpc = "idle"
    /\ \E enabled \in BOOLEAN, found \in PathResources :
         IF enabled /\ found # <<>>
           THEN /\ resources' = found
                /\ max_concurrent' = DEFAULT_MAX_CONCURRENT
                /\ permits' = DEFAULT_MAX_CONCURRENT
                /\ tstate' = [i \in DOMAIN found |-> "pending"]
                /\ tresult' = [i \in DOMAIN found |-> NoResult]
                /\ requests' = [i \in DOMAIN found |-> <<>>]
                /\ bpc' = "gather"
                /\ UNCHANGED <<pc, last_done, results>>
           ELSE /\ pc' = "save_path"
                /\ UNCHANGED batchVars
    /\ UNCHANGED <<MAX_ITERATIONS, QUALITY_THRESHOLD, state, outcome, result,
                   raised, llmVars, jsonVars, runVars>>

\* validate_batch returns, or its exception leaves _validate_path_resources
\* and reaches generate_path's `except Exception: ... raise`.
ValidationReturns ==
    /\ pc = "validate_resources"
    /\ bpc \in {"returned", "raised"}
    /\ IF bpc = "returned"
         THEN /\ pc' = "save_path"
              /\ UNCHANGED raised
         ELSE /\ raised' = "validation_error"
              /\ pc' = "raised"
    /\ UNCHANGED <<MAX_ITERATIONS, QUALITY_THRESHOLD, state, outcome, result,
                   serviceVars>>

\* A whole generation request of one iteration, the validation step
\* followed probe by probe.
PathNext ==
    \/ ResearchRun
    \/ CurriculumRun
    \/ ExpertRun
    \/ QualityStage
    \/ ShouldContinue
    \/ FinalizeNode
    \/ CheckOutput
    \/ CollectResources
    \/ \E i \in DOMAIN resources : Acquire(i)
    \/ \E i \in DOMAIN resources : HeadAnswered(i)
    \/ \E i \in DOMAIN resources : GetAnswered(i)
    \/ BatchReturn
    \/ ValidationReturns
    \/ SavePath

PathInit == Init /\ MAX_ITERATIONS = 1

PathSpec == PathInit /\ [][PathNext]_vars

(* ============================== claims ============================== *)
Completed(agent) ==
    \E i \in DOMAIN agent_logs :
        agent_logs[i].agent = agent /\ agent_logs[i].action = "completed"

Entries(agent) ==
    Cardinality({i \in DOMAIN agent_logs :
        agent_logs[i].agent = agent /\ agent_logs[i].action = "start"})

InWorkflow ==
    pc \in {"research", "curriculum", "expert", "quality", "should_continue",
            "finalize"}

MinSeq(s) == CHOOSE m \in {s[i] : i \in DOMAIN s} : \A i \in DOMAIN s : m <= s[i]

GateSucceeded == outcome.agent = "QualityAgent" /\ outcome.status = "ok"

\* C1: at the end of a completed run iteration <= max_iterations + 1, and
\* once approved is true at the exit of the Quality Gate no stage (so no
\* Structuring) is entered again in that run.
C1_IterationCeiling ==
    /\ ~InWorkflow => iteration <= MAX_ITERATIONS + 1
    /\ approved => pc \notin Stages

\* A run approved on its second cycle, below the ceiling, has finalized.
C1_Witness ==
    /\ pc = "END"
    /\ approved
    /\ iteration = 2
    /\ MAX_ITERATIONS > 2

\* C2: every run reaches finalization; Structuring increments iteration on
\* every entry, failed ones included, so the Structuring -> Review -> Gate
\* cycle is entered at most max_iterations + 1 times.
C2_Terminates ==
    /\ [](iteration = Entries("CurriculumAgent"))
    /\ [](Entries("CurriculumAgent") <= MAX_ITERATIONS + 1)
    /\ <>(completed_at = "stamped" /\ ~InWorkflow)

\* A finalized run in which both Structuring executions failed.
C2_Witness ==
    /\ completed_at = "stamped"
    /\ iteration = 2
    /\ draft_curriculum.empty
    /\ Len(errors) = 2

\* C3: the verdict of a successful Quality Gate execution equals
\* (min(sub-scores) >= 0.8) AND (exact mean(sub-scores) >= threshold) AND
\* the stage-reported approval bit.
C3_VerdictIsExactFormula ==
    GateSucceeded =>
        quality_review.approved =
            (/\ MinSeq(quality_review.scores) >= MIN_SUBSCORE
             /\ SumSeq(quality_review.scores)
                    >= QUALITY_THRESHOLD * Len(quality_review.scores)
             /\ outcome.reported)

\* C4: when a Gate execution completes with a not-approved verdict while
\* iteration >= max_iterations, state.approved is true afterwards.
C4_ForcedApprovalAtCeiling ==
    (/\ GateSucceeded
     /\ ~quality_review.approved
     /\ iteration >= MAX_ITERATIONS) => approved

\* C5: the edge out of the Quality Gate goes to finalize exactly when
\* approved or iteration >= max_iterations, otherwise back to Structuring,
\* and evaluating it changes no field of the workflow state.
C5_ContinuationEdge ==
    [][pc = "should_continue" =>
         /\ (pc' = "finalize") = (approved \/ iteration >= MAX_ITERATIONS)
         /\ (pc' = "curriculum") = ~(approved \/ iteration >= MAX_ITERATIONS)
         /\ state' = state]_vars

\* The run looped back: Structuring is about to be re-entered.
C5_Witness ==
    /\ pc = "curriculum"
    /\ iteration >= 1
    /\ ~approved
    /\ iteration < MAX_ITERATIONS

TopologyEdges ==
    {<<"research", "curriculum">>, <<"curriculum", "expert">>,
     <<"expert", "quality">>, <<"quality", "should_continue">>,
     <<"should_continue", "curriculum">>, <<"should_continue", "finalize">>,
     <<"finalize", "END">>}

\* C6: stages run only along the fixed topology: Discovery first and exactly
\* once; Structuring is followed by Review and then the Gate whatever they
\* return; the Gate by Structuring or finalize; finalize once, last.
C6_FixedTopology ==
    /\ pc = "research"
    /\ [](Entries("ResearchAgent") = IF pc = "research" THEN 0 ELSE 1)
    /\ [][/\ InWorkflow => <<pc, pc'>> \in TopologyEdges
          /\ ~InWorkflow => ~InWorkflow']_vars

\* The Gate is about to run although Structuring and Review both failed.
C6_Witness ==
    /\ pc = "quality"
    /\ Len(errors) = 2
    /\ errors[1].agent = "CurriculumAgent"
    /\ errors[2].agent = "ExpertAgent"

\* C7: after finalize, final_output is the current draft whether or not the
\* run is approved and completed_at is set; before, both are null.
C7_FinalOutputIsDraft ==
    IF InWorkflow
      THEN final_output = <<>> /\ completed_at = "null"
      ELSE final_output = <<draft_curriculum>> /\ completed_at = "stamped"

\* An unapproved run finalized with a draft.
C7_Witness ==
    /\ pc = "END"
    /\ ~approved
    /\ ~draft_curriculum.empty
    /\ final_output = <<draft_curriculum>>

\* C8 as stated: iteration never decreases and iteration <= max_iterations.
C8_Original ==
    /\ [][iteration' >= iteration]_vars
    /\ [](iteration <= MAX_ITERATIONS)

\* C8: iteration never decreases and iteration <= max(max_iterations, 1)
\* (Structuring always runs once, so a ceiling of 0 still counts to 1).
C8_IterationBounded ==
    /\ [][iteration' >= iteration]_vars
    /\ [](iteration <= IF MAX_ITERATIONS >= 1 THEN MAX_ITERATIONS ELSE 1)

\* A run that used its whole ceiling.
C8_Witness ==
    /\ pc = "END"
    /\ MAX_ITERATIONS >= 2
    /\ iteration = MAX_ITERATIONS

\* C9: a failing stage appends exactly one error entry carrying its own
\* name, control passes to the next node of the topology, and the run still
\* reaches finalize.
C9_StageFailureIsNonFatal ==
    /\ [][(pc \in Stages /\ pc' # pc /\ outcome'.status \in FailureKinds) =>
            /\ Len(errors') = Len(errors) + 1
            /\ SubSeq(errors', 1, Len(errors)) = errors
            /\ errors'[Len(errors')].agent = AgentName(pc)
            /\ pc' = (CASE pc = "research" -> "curriculum"
                        [] pc = "curriculum" -> "expert"
                        [] pc = "expert" -> "quality"
                        [] pc = "quality" -> "should_continue")]_vars
    /\ [](outcome.status \in FailureKinds => <>(completed_at = "stamped"))

\* A finalized run in which the Gate and an earlier stage failed.
C9_Witness ==
    /\ completed_at = "stamped"
    /\ Len(errors) = 2
    /\ errors[2].agent = "QualityAgent"
    /\ errors[1].agent # "QualityAgent"

\* C10 as stated: the request fails for lack of output only if neither
\* Discovery nor Structuring ever produced output, and a returned result
\* carries the approval status and the error list.
C10_Original ==
    /\ raised = "no_path_data" =>
          ~Completed("ResearchAgent") /\ ~Completed("CurriculumAgent")
    /\ pc = "returned" => {"approved", "errors"} \subseteq DOMAIN result[1]

\* C10: "no path data generated" is raised exactly when no Structuring
\* execution of the run succeeded, whatever Discovery did; otherwise the
\* check passes, and a returned result carries the draft, the approval
\* status, the iteration count and the quality score, but no error list.
C10_HardFailureIffNoDraft ==
    /\ raised = "no_path_data" => ~Completed("CurriculumAgent")
    /\ (~InWorkflow /\ pc # "END" /\ ~Completed("CurriculumAgent")) =>
          raised = "no_path_data" /\ pc = "raised"
    /\ pc = "returned" =>
          /\ DOMAIN result[1] = {"path_data", "iteration_count", "quality_score",
                                 "approved", "max_iterations_reached"}
          /\ result[1].approved = approved
          /\ result[1].path_data = draft_curriculum
          /\ ~result[1].path_data.empty

\* Discovery succeeded, every Structuring execution failed: hard failure.
C10_Witness ==
    /\ raised = "no_path_data"
    /\ Completed("ResearchAgent")
    /\ ~Completed("CurriculumAgent")

(* ------------------------ the retry wrapper ------------------------- *)
AllFailed == \A i \in DOMAIN history : ~history[i].ok
LastAttempt == history[Len(history)]
WaitSeconds == [i \in DOMAIN waits |-> waits[i].seconds]
\* The seconds slept after the failed attempt k (0-based), <<>> if none.
WaitAfter(k) ==
    IF \E i \in DOMAIN waits : waits[i].after = k
      THEN <<(CHOOSE w \in {waits[i] : i \in DOMAIN waits} : w.after = k).seconds>>
      ELSE <<>>

\* C11: for every ceiling n and every sequence of attempt outcomes, the
\* wrapper makes at most n generate() calls, one network call each; only the
\* last call made can have succeeded; it has returned exactly when that call
\* succeeded, with that call's text, and nothing is done afterwards; the
\* exhausted error is raised only after n failed calls, carrying the last
\* one's error, and after n failed calls raising it is the only step left.
C11_RetryContract ==
    /\ [](rpc # "idle" =>
            /\ calls = Len(history)
            /\ calls <= max_retries
            /\ \A i \in 1..(Len(history) - 1) : ~history[i].ok
            /\ (rpc = "returned") <=> (history # <<>> /\ LastAttempt.ok)
            /\ rpc = "returned" => rtext = <<LastAttempt.text>>
            /\ rpc = "raised" =>
                 /\ Len(history) = max_retries
                 /\ AllFailed
                 /\ rtext = IF history = <<>> THEN <<>>
                            ELSE <<LastAttempt.error>>)
    /\ [][/\ rpc \in {"returned", "raised"} => UNCHANGED llmVars
          /\ (rpc = "loop" /\ Len(history) = max_retries /\ AllFailed)
               => (rpc' = "raised" /\ calls' = calls)]_vars

\* A call with ceiling 3 returned on its second attempt.
C11_Witness ==
    /\ max_retries = DEFAULT_MAX_RETRIES
    /\ rpc = "returned"
    /\ calls = 2
    /\ ~history[1].ok

\* C12: with the default ceiling of 3, a call whose three attempts all
\* failed on a connection error made exactly 3 attempts and slept exactly
\* twice, 1 s and then 2 s, before the exhausted error was raised.
C12_ThreeConnectionFailures ==
    (/\ max_retries = DEFAULT_MAX_RETRIES
     /\ rpc = "raised"
     /\ \A i \in DOMAIN history : history[i].error.kind = "connect")
      => /\ calls = 3
         /\ WaitSeconds = <<Min(Pow2(0), 10), Min(Pow2(1), 10)>>

\* C13: the sleep after a failed attempt k is min(2^k, 10) s when the failure
\* is a connection failure or a timeout, and min(2^k, 30) s when it is any
\* other failure that is not a rate limit and attempt k is not the final
\* one; no sleep exceeds the cap of its class.
C13_BackoffByFailureClass ==
    \A i \in DOMAIN history :
      LET k == i - 1
          kind == history[i].error.kind
      IN /\ kind \in {"connect", "read", "timeout"}
              => WaitAfter(k) = <<Min(Pow2(k), 10)>>
         /\ (kind \in {"http", "unknown"} /\ k < max_retries - 1)
              => WaitAfter(k) = <<Min(Pow2(k), 30)>>
         /\ (kind \in {"http", "unknown"} /\ WaitAfter(k) # <<>>)
              => WaitAfter(k)[1] <= 30

\* The delay the three phrasings of the claim give: the first of "retry in
\* Ns", "retryDelay: N", "after N seconds" that occurs, else 15 s.
FirstOf(str, toks) ==
    LET i == CHOOSE i \in DOMAIN str :
               /\ str[i].tok \in toks
               /\ \A j \in 1..(i - 1) : str[j].tok \notin toks
    IN str[i]
Occurs(str, toks) == \E i \in DOMAIN str : str[i].tok \in toks
ThreePhrasingDelay(str) ==
    IF Occurs(str, {"retry in Ns"}) THEN FirstOf(str, {"retry in Ns"}).n
    ELSE IF Occurs(str, {"retryDelay: N"}) THEN FirstOf(str, {"retryDelay: N"}).n
    ELSE IF Occurs(str, {"after N seconds"}) THEN FirstOf(str, {"after N seconds"}).n
    ELSE 15

\* The same with "RetryInfo...Ns" as third of four phrasings, a phrasing
\* counting when its leftmost occurrence carries a parsable number.
Suggests(str, toks) == Occurs(str, toks) /\ Parses(FirstOf(str, toks))
RetryIn == {"retry in Ns", "retry in N.N.Ns"}
FourPhrasingDelay(str) ==
    IF Suggests(str, RetryIn) THEN FirstOf(str, RetryIn).n
    ELSE IF Occurs(str, {"retryDelay: N"}) THEN FirstOf(str, {"retryDelay: N"}).n
    ELSE IF Occurs(str, {"RetryInfo Ns"}) THEN FirstOf(str, {"RetryInfo Ns"}).n
    ELSE IF Occurs(str, {"after N seconds"}) THEN FirstOf(str, {"after N seconds"}).n
    ELSE 15

\* The last attempt was answered 429 and its message is handled as a rate
\* limit: it names one, and no connection failure or timeout.
RateLimitedAttempt ==
    /\ rpc # "idle"
    /\ history # <<>>
    /\ LastAttempt.error.kind = "rate_limited"
    /\ Occurs(LastAttempt.error.str, {"429", "RATE_LIMITED"})
    /\ ~Occurs(LastAttempt.error.str, {"CONNECTION_ERROR", "TIMEOUT_ERROR"})

HasJsonBlock(str) ==
    /\ FindJsonFence(str) # 0
    /\ Find(str, "FENCE", FindJsonFence(str) + 2) # 0
JsonBlock(str) ==
    SubSeq(str, FindJsonFence(str) + 2,
           Find(str, "FENCE", FindJsonFence(str) + 2) - 1)
HasBlock(str) ==
    /\ Find(str, "FENCE", 1) # 0
    /\ Find(str, "FENCE", Find(str, "FENCE", 1) + 1) # 0
Block(str) ==
    SubSeq(str, Find(str, "FENCE", 1) + 1,
           Find(str, "FENCE", Find(str, "FENCE", 1) + 1) - 1)
HasSpan(str) ==
    /\ Find(str, "{", 1) # 0
    /\ ScanBraces(str, Find(str, "{", 1), 0) # 0
Span(str) ==
    SubSeq(str, Find(str, "{", 1), ScanBraces(str, Find(str, "{", 1), 0))
Extracted == jpc = "done" /\ joutcome # "llm_error"

\* C15: the text handed to the parser is the contents of the first fenced
\* json block if there is one; else the contents of the first fenced block
\* if there is one; else the span from the first "{" to its matching "}",
\* whatever text precedes or follows that span.
C15_ExtractionOrder ==
    Extracted =>
      /\ HasJsonBlock(raw) => cleaned = Strip(JsonBlock(raw))
      /\ (~HasJsonBlock(raw) /\ HasBlock(raw)) => cleaned = Strip(Block(raw))
      /\ (~HasJsonBlock(raw) /\ ~HasBlock(raw) /\ HasSpan(raw))
           => cleaned = Span(raw)

\* The raw text is blank, or the fenced block selected from it is.
BlankSelection(str) ==
    \/ Strip(str) = <<>>
    \/ HasJsonBlock(str) /\ Strip(JsonBlock(str)) = <<>>
    \/ ~HasJsonBlock(str) /\ HasBlock(str) /\ Strip(Block(str)) = <<>>
UnclosedFirstBrace(str) ==
    /\ Find(str, "{", 1) # 0
    /\ ScanBraces(str, Find(str, "{", 1), 0) = 0

\* C16: the call fails with the empty-output error exactly when the raw
\* text or the fenced block selected from it is blank; a text that is not
\* blank and whose first "{" is never closed fails with the malformed-output
\* error; neither failure is followed by another generate_with_retry call.
C16_EmptyOrMalformed ==
    Extracted =>
      /\ (joutcome = "empty") <=> BlankSelection(raw)
      /\ (UnclosedFirstBrace(raw) /\ ~BlankSelection(raw))
           => joutcome = "malformed"
      /\ joutcome \in {"empty", "malformed"} => jcalls = 1

\* C17: the caller's message dicts are as they were before the call, and
\* every request whose last message is a user message carries the JSON-only
\* instruction exactly once.
C17_NoSideEffectOnMessages ==
    jpc # "idle" =>
      /\ \A i \in DOMAIN heap : heap[i].instructions = 0
      /\ \A i \in DOMAIN sent :
           (sent[i] # <<>> /\ sent[i][1].role = "user")
             => sent[i][1].instructions = 1

(* ------------------------- batch validation ------------------------- *)
InFlight == {i \in DOMAIN tstate : tstate[i] \in {"head", "get"}}
Terminal(res) ==
    \/ res.error = "None" /\ res.status_code \in StatusCodes
    \/ res.error \in {"Timeout", "str(e)"} /\ ~res.accessible

\* C18: for every batch, every max_concurrent and every order in which the
\* probes complete, the returned list is as long as the input and its i-th
\* entry is the result for the i-th resource: it carries that resource's
\* url.
C18_ResultsInInputOrder ==
    bpc = "returned" =>
      /\ Len(results) = Len(resources)
      /\ \A i \in DOMAIN resources : results[i].url = resources[i].url

\* Three different URLs probed one at a time, the first one's probe the
\* last to complete.
C18_Witness ==
    /\ bpc = "returned"
    /\ Len(resources) = 3
    /\ resources[1].url # resources[3].url
    /\ last_done = 1

\* C19: in every reachable state of a call the probes in flight number at
\* most max_concurrent, and together with the free permits they number
\* exactly max_concurrent: a probe that fails gives its permit back as one
\* that succeeds does.
C19_LimiterBound ==
    bpc # "idle" =>
      /\ Cardinality(InFlight) <= max_concurrent
      /\ Cardinality(InFlight) + permits = max_concurrent

\* Both permits taken again after a probe failed.
C19_Witness ==
    /\ max_concurrent = 2
    /\ Cardinality(InFlight) = 2
    /\ permits = 0
    /\ \E i \in DOMAIN tstate : tstate[i] = "done" /\ ~tresult[i].accessible

\* C20: the call has returned only when every resource has a terminal
\* result (an answer, a timeout or another error), and with max_concurrent
\* >= 1 a call always eventually returns.
C20_ReturnsAfterAllProbes ==
    /\ [](bpc = "returned" =>
            /\ \A i \in DOMAIN resources : tstate[i] = "done"
            /\ \A i \in DOMAIN results : Terminal(results[i]))
    /\ [](bpc = "gather" /\ max_concurrent >= 1 => <>(bpc = "returned"))

\* Three resources through a limiter of one, one of them timing out.
C20_Witness ==
    /\ bpc = "returned"
    /\ Len(resources) = 3
    /\ max_concurrent = 1
    /\ \E i \in DOMAIN results : results[i].error = "Timeout"

(* ------------------ batch validation: failing probes ----------------- *)
\* The answer to the last request task i sent.
LastAnswer(i) == requests[i][Len(requests[i])].answer
Failing(i) == tstate[i] = "done" /\ LastAnswer(i).kind # "status"

\* C21: whichever probes raise (time out or fail otherwise), the call does
\* not raise; it returns only when every probe has run to completion; each
\* failing resource's result has accessible = false and the error text; and
\* the result of every other resource is what its own answer makes it,
\* whatever happened to its siblings.
C21_FailuresAreIsolated ==
    /\ bpc # "raised"
    /\ \A i \in DOMAIN tstate :
         tstate[i] = "done" =>
           IF Failing(i)
             THEN /\ ~tresult[i].accessible
                  /\ tresult[i].error \in {"Timeout", "str(e)"}
                  /\ tresult[i].url = resources[i].url
             ELSE tresult[i] =
                    [url |-> resources[i].url,
                     accessible |-> (LastAnswer(i).code < ERROR_STATUS),
                     status_code |-> LastAnswer(i).code, error |-> "None"]
    /\ bpc = "returned" =>
         /\ \A i \in DOMAIN resources : tstate[i] = "done"
         /\ results = tresult

\* Three resources, the second one's probe raising first and its siblings
\* answered afterwards, one as accessible.
C21_Witness ==
    /\ bpc = "returned"
    /\ Len(resources) = 3
    /\ Failing(2)
    /\ results[2].error = "str(e)"
    /\ last_done # 2
    /\ results[1].accessible
    /\ ~Failing(3)

\* The status answers task i received, in order.
Responses(i) == SelectSeq(requests[i], LAMBDA r : r.answer.kind = "status")

\* HEAD first; GET if and only if the HEAD status is 400 or more; at most
\* two requests.
ProbeOrder(i) ==
    LET reqs == requests[i]
    IN /\ Len(reqs) <= 2
       /\ reqs # <<>> => reqs[1].method = "HEAD"
       /\ Len(reqs) = 2 => reqs[2].method = "GET"
       /\ tstate[i] \in {"get", "done"} =>
            (Len(reqs) = 2 <=> (/\ reqs[1].answer.kind = "status"
                                /\ reqs[1].answer.code >= ERROR_STATUS))

\* C30 as stated: the result follows the last response received.
C30_Original ==
    \A i \in DOMAIN tstate :
      /\ ProbeOrder(i)
      /\ (tstate[i] = "done" /\ Responses(i) # <<>>) =>
           LET last == Responses(i)[Len(Responses(i))].answer
           IN /\ tresult[i].accessible = (last.code < ERROR_STATUS)
              /\ tresult[i].status_code = last.code

\* C30: HEAD first, GET if and only if the HEAD status is >= 400, at most
\* two requests; when the last request sent was answered, accessible is
\* true iff its status is < 400 and status_code is that status; when the
\* last request sent raised or timed out, accessible is false and
\* status_code is None (0 here), whatever status an earlier HEAD had.
C30_HeadThenGet ==
    \A i \in DOMAIN tstate :
      /\ ProbeOrder(i)
      /\ tstate[i] = "done" =>
           IF LastAnswer(i).kind = "status"
             THEN /\ tresult[i].accessible = (LastAnswer(i).code < ERROR_STATUS)
                  /\ tresult[i].status_code = LastAnswer(i).code
             ELSE /\ ~tresult[i].accessible
                  /\ tresult[i].status_code = 0

\* A HEAD answered 404 followed by a GET answered 200, and a HEAD answered
\* 404 followed by a GET that timed out.
C30_Witness ==
    /\ bpc = "returned"
    /\ \E i \in DOMAIN results :
         /\ Len(requests[i]) = 2
         /\ requests[i][1].answer.code = 404
         /\ results[i].accessible
         /\ results[i].status_code = 200
    /\ \E i \in DOMAIN results :
         /\ Len(requests[i]) = 2
         /\ requests[i][2].answer.kind = "timeout"
         /\ results[i].error = "Timeout"

(* ---------------- generate_path: the validation step ----------------- *)
\* C22: the resource validation step that follows finalization never makes
\* the generation request fail, whatever fields the generator gave the
\* resource records of the finalized artifact: generate_path never raises
\* because of that step.
C22_ValidationNeverFails == raised # "validation_error"

(* --------------------------- Structuring ----------------------------- *)
\* Structuring has just run on a document the generator returned.
Structured ==
    /\ outcome.agent = "CurriculumAgent"
    /\ "doc" \in DOMAIN outcome

\* C23: in every reachable state a non-empty draft_curriculum has
\* total_tasks equal to the sum over its phases of the number of tasks in
\* the phase, whatever total the generator declared.
C23_TotalIsRecomputed ==
    ~draft_curriculum.empty =>
      /\ draft_curriculum.total_tasks = SumSeq(draft_curriculum.phases)
      /\ (Structured /\ outcome.status = "ok") =>
           draft_curriculum.phases = outcome.doc.phases

\* A document of two phases with 2 and 1 tasks that declared 0 tasks is
\* stored with a total of 3.
C23_Witness ==
    /\ Structured
    /\ outcome.status = "ok"
    /\ outcome.doc.declared = 0
    /\ draft_curriculum.phases = <<2, 1>>
    /\ draft_curriculum.total_tasks = 3

\* C24: a generated document is stored as the draft only if it has the
\* five required keys and a non-empty phase list in which every phase has
\* at least one task; a document with an empty phase list or a task-less
\* phase is a stage failure; hence every non-empty draft in state has at
\* least one phase and every phase at least one task.
C24_StoredOnlyIfWellFormed ==
    /\ (Structured /\ outcome.status = "ok") =>
         /\ outcome.doc.keys = REQUIRED_KEYS
         /\ outcome.doc.phases # <<>>
         /\ \A i \in DOMAIN outcome.doc.phases : outcome.doc.phases[i] >= 1
    /\ ~draft_curriculum.empty =>
         /\ Len(draft_curriculum.phases) >= 1
         /\ \A i \in DOMAIN draft_curriculum.phases :
              draft_curriculum.phases[i] >= 1

(* ---------------------------- Discovery ------------------------------ *)
\* The distinct non-empty urls among the results of the queries that
\* returned.
DistinctUrls(search) ==
    {u \in UNION {{search[q].urls[i] : i \in DOMAIN search[q].urls} :
                    q \in {q \in DOMAIN search : ~search[q].raised}} : u # 0}

\* C25: after a successful Discovery the stored confidence is a function
\* of the number n of deduplicated search results only: high iff n >= 5,
\* medium iff 3 <= n <= 4, low iff n <= 2, whatever confidence the
\* generator wrote.
C25_ConfidenceFromResultCount ==
    (outcome.agent = "ResearchAgent" /\ outcome.status = "ok") =>
      LET n == Cardinality(DistinctUrls(outcome.input.search))
          confidence == research_findings.search_metadata.confidence
      IN /\ research_findings.search_metadata.sources_found = n
         /\ confidence = "high" <=> n >= 5
         /\ confidence = "medium" <=> (3 <= n /\ n <= 4)
         /\ confidence = "low" <=> n <= 2

\* Nine results, five of them distinct, and a generator that wrote "low":
\* the stored confidence is "high".
C25_Witness ==
    /\ outcome.agent = "ResearchAgent"
    /\ outcome.status = "ok"
    /\ outcome.input.response.claimed = "low"
    /\ Len(Collected(outcome.input.search)) = 9
    /\ research_findings.search_metadata.sources_found = 5
    /\ research_findings.search_metadata.confidence = "high"

(* ------------------------ failing stage steps ------------------------ *)
\* A step in which a stage execution failed on a generation error or a
\* missing required key: its except clause recorded the error.
StageFailureStep ==
    /\ Len(errors') = Len(errors) + 1
    /\ outcome'.status \in FailureKinds

\* C28 as stated: a failing stage execution changes nothing but the errors
\* list.
C28_Original ==
    [][StageFailureStep =>
         UNCHANGED <<research_findings, draft_curriculum, expert_feedback,
                     quality_review, iteration, approved, final_output,
                     completed_at, agent_logs>>]_vars

\* C28: a failing execution of any of the four stages leaves its own
\* output field and every other stage's, approved, final_output and
\* completed_at unchanged; it appends one entry to errors and one entry,
\* the stage's start entry, to the action log; and iteration is unchanged
\* except by Structuring, which has counted its entry.
C28_FailureFrame ==
    [][StageFailureStep =>
         /\ UNCHANGED <<research_findings, draft_curriculum, expert_feedback,
                        quality_review, approved, final_output, completed_at>>
         /\ errors' = Append(errors, [agent |-> outcome'.agent,
                                      error |-> errors'[Len(errors')].error])
         /\ agent_logs' = Append(agent_logs,
                                 [agent |-> outcome'.agent, action |-> "start",
                                  iteration |-> iteration])
         /\ iteration' = IF outcome'.agent = "CurriculumAgent"
                           THEN iteration + 1 ELSE iteration]_vars

\* A second Structuring execution has failed: the draft of the first is
\* still there and the iteration counter is 2.
C28_Witness ==
    /\ outcome.agent = "CurriculumAgent"
    /\ outcome.status \in FailureKinds
    /\ iteration = 2
    /\ draft_curriculum.attempt = 1
    /\ agent_logs[Len(agent_logs)].action = "start"

(* ------------------------ runs side by side -------------------------- *)
\* The WorkflowState of a run, its lists read through their references.
StateOf(run) == WithLists(runs[run].state, lists)

\* The generation calls of a run that are in flight.
CallsInFlight(run) == runs[run].calling

\* C26: within one workflow run at most one generation call is in flight
\* at any time: a stage issues its call only when no other call of the run
\* is in flight, and a call is in flight for the scheduled stage only.
C26_OneCallInFlight ==
    \A run \in Runs :
      /\ Cardinality(CallsInFlight(run)) <= 1
      /\ CallsInFlight(run) \subseteq runs[run].active
      /\ Cardinality(runs[run].active) = 1

\* Technical Review's call is in flight after the calls of Discovery and
\* Structuring have returned or failed.
C26_Witness ==
    \E run \in Runs :
      /\ CallsInFlight(run) = {"expert"}
      /\ Len(runs[run].responses) = 2
      /\ ~runs[run].responses[1].ok

\* The state a run reaches alone from `st` at `node`, given the responses
\* its generation calls get, and the node it is at.
RECURSIVE Replay(_, _, _)
Replay(st, node, responses) ==
    IF responses = <<>> THEN [state |-> st, node |-> node]
    ELSE LET after == StageEnd(node, StageBegin(node, st), Head(responses))
         IN Replay(after, NextNode(node, Route(node, after)), Tail(responses))

\* The state of a run that is alone and got the responses `run` got so
\* far, taken to where `run` is.
Alone(run) ==
    LET own == [InitialState(run) EXCEPT !.errors = <<>>, !.agent_logs = <<>>]
        at == Replay(own, "research", runs[run].responses)
    IN IF runs[run].active = {"END"} THEN Finalize(at.state)
       ELSE IF runs[run].calling # {} THEN StageBegin(at.node, at.state)
       ELSE at.state

\* C27: two requests whose runs interleave on the shared workflow and
\* stage objects do not share workflow state: after any interleaving every
\* field of each run's WorkflowState equals what that run produces alone
\* given the same responses.
C27_RunsAreIsolated == \A run \in Runs : StateOf(run) = Alone(run)

\* Both runs have a call in flight; the first is in its second iteration
\* with a recorded error, the second in its first with none.
C27_Witness ==
    /\ runs[1].calling # {}
    /\ runs[2].calling # {}
    /\ StateOf(1).iteration = 2
    /\ StateOf(1).errors # <<>>
    /\ StateOf(2).iteration = 1
    /\ StateOf(2).errors = <<>>

\* s is a prefix of t.
IsPrefix(s, t) == Len(s) <= Len(t) /\ SubSeq(t, 1, Len(s)) = s

\* C29: across every step no key of a run's workflow state is removed, and
\* the errors list and the action log after the step have the lists before
\* it as prefixes (so every later list extends every earlier one).
C29_AppendOnly ==
    [][\A run \in Runs :
         /\ DOMAIN runs[run].state \subseteq DOMAIN runs'[run].state
         /\ IsPrefix(StateOf(run).errors,
                     WithLists(runs'[run].state, lists').errors)
         /\ IsPrefix(StateOf(run).agent_logs,
                     WithLists(runs'[run].state, lists').agent_logs)]_vars

\* A finalized run with two recorded errors and its whole action log.
C29_Witness ==
    \E run \in Runs :
      /\ runs[run].active = {"END"}
      /\ Len(StateOf(run).errors) = 2
      /\ Len(StateOf(run).agent_logs) >= 6
      /\ StateOf(run).completed_at = "stamped"

\* C36: when every one of the n >= 1 attempts failed, whatever the failure class
\* of each attempt, exactly n - 1 waits occurred before the exhausted error
\* was raised (no wait follows the final attempt).
C36_NoWaitAfterFinalAttempt ==
    (rpc = "raised" /\ AllFailed /\ max_retries >= 1)
      => Len(waits) = max_retries - 1

\* The "Curriculum design completed" entries of the action log, in order.
CurriculumCompletions ==
    SelectSeq(agent_logs, LAMBDA e : e.agent = "CurriculumAgent"
                                     /\ e.action = "completed")

\* A Structuring execution that stored its draft takes this step.
StructuringSucceeds ==
    /\ pc = "curriculum"
    /\ outcome'.agent = "CurriculumAgent"
    /\ outcome'.status = "ok"

\* C37: at every point of a run draft_curriculum is the output of the most
\* recent successful Structuring execution, or the empty draft if none has
\* succeeded: only a successful Structuring changes it (a failed one keeps
\* the earlier draft), and that draft is what Technical Review and Quality
\* Gate evaluate and what finalizing returns.
C37_DraftIsLatestSuccess ==
    /\ [](IF CurriculumCompletions = <<>>
            THEN draft_curriculum = EmptyDraft
            ELSE /\ ~draft_curriculum.empty
                 /\ draft_curriculum.attempt =
                      CurriculumCompletions[Len(CurriculumCompletions)].iteration)
    /\ [][/\ StructuringSucceeds
              => draft_curriculum' =
                   Enriched(Draft(outcome'.doc, iteration'),
                            EnrichWalk(Draft(outcome'.doc, iteration'),
                                       outcome'.answers))
          /\ ~StructuringSucceeds => UNCHANGED draft_curriculum
          /\ (pc = "expert" /\ outcome'.status = "ok")
              => expert_feedback'.draft = draft_curriculum.attempt
          /\ (pc = "quality" /\ outcome'.status = "ok")
              => quality_review'.draft = draft_curriculum.attempt
          /\ pc = "finalize" => final_output' = <<draft_curriculum>>]_vars

\* A run whose second Structuring failed finalized with the draft of the
\* first, which the second Review and Gate evaluated.
C37_Witness ==
    /\ pc = "END"
    /\ iteration = 2
    /\ draft_curriculum.attempt = 1
    /\ \E i \in DOMAIN errors : errors[i].agent = "CurriculumAgent"
    /\ ~expert_feedback.empty /\ expert_feedback.draft = 1
    /\ ~quality_review.empty /\ quality_review.draft = 1
    /\ final_output = <<draft_curriculum>>

\* C38: once a run has finalized, a non-empty quality_review was computed by
\* a Quality Gate execution that evaluated the draft being finalized: no
\* Structuring execution replaced the draft after that Gate execution.
C38_VerdictIsOfFinalDraft ==
    (completed_at = "stamped" /\ ~quality_review.empty)
      => /\ quality_review.draft = draft_curriculum.attempt
         /\ final_output = <<draft_curriculum>>

\* C39 as stated: whenever quality_review is non-empty the top-level
\* approval flag equals the approval recorded in the stored verdict.
C39_Original ==
    ~quality_review.empty => approved = quality_review.approved

\* C39: whenever quality_review is non-empty, an approving stored verdict
\* implies state.approved, and state.approved without an approving verdict
\* occurs only at iteration >= 5 (forced approval); a successful Gate
\* execution leaves approved = (stored verdict approves or iteration >= 5).
C39_FlagsAgreeUnlessForced ==
    /\ [](~quality_review.empty =>
            /\ quality_review.approved => approved
            /\ (approved /\ ~quality_review.approved)
                 => iteration >= FORCE_APPROVAL_ITERATION)
    /\ [][(pc = "quality" /\ outcome'.status = "ok")
            => approved' = (quality_review'.approved
                            \/ iteration >= FORCE_APPROVAL_ITERATION)]_vars

\* The Gate rejected at iteration 5 and approval was forced.
C39_Witness ==
    /\ GateSucceeded
    /\ ~quality_review.approved
    /\ approved
    /\ iteration = FORCE_APPROVAL_ITERATION

\* C40: whenever a run has finalized with state.approved = true,
\* final_output is a non-empty draft that a successful Structuring execution
\* produced, and the request does not end in "no path data generated".
C40_ApprovedRunHasDraft ==
    (completed_at = "stamped" /\ approved)
      => /\ final_output # <<>>
         /\ ~final_output[1].empty
         /\ Completed("CurriculumAgent")
         /\ raised # "no_path_data"

(* ------------------------ resource enrichment ----------------------- *)
\* A Structuring execution has stored its draft; outcome.searches and
\* outcome.assigned are what its enrichment step did.
Stored == Structured /\ outcome.status = "ok"

\* C31: in one Structuring execution the enrichment step issues at most 5
\* documentation searches, at most one per task, whatever the searches
\* return, and assigns the resource list of at most 5 tasks.
C31_AtMostFiveSearches ==
    Stored =>
      /\ Len(outcome.searches) <= SEARCH_LIMIT
      /\ \A i, j \in DOMAIN outcome.searches :
           outcome.searches[i] = outcome.searches[j] => i = j
      /\ Cardinality(outcome.assigned) <= SEARCH_LIMIT

\* C32: after a successful Structuring execution every task of the stored
\* draft has at most 5 resources, and at most 2 more than the generator
\* gave it.
C32_ResourceCaps ==
    Stored =>
      \A i \in DOMAIN draft_curriculum.resources :
        /\ Len(draft_curriculum.resources[i]) <= MAX_TASK_RESOURCES
        /\ Len(draft_curriculum.resources[i])
             <= Len(TaskResources(GeneratedResources(outcome.doc), i))
                  + TOP_RESULTS

\* C33: in every stored draft the urls of the resources of any one task are
\* pairwise distinct.
C33_DistinctUrlsPerTask ==
    ~draft_curriculum.empty =>
      \A i \in DOMAIN draft_curriculum.resources :
        \A j, k \in DOMAIN draft_curriculum.resources[i] :
          draft_curriculum.resources[i][j] = draft_curriculum.resources[i][k]
            => j = k

\* The search of the task at position i returned at least one result.
Found(answers, i) == ~answers[i].raises /\ answers[i].results # <<>>

\* C34: when the documentation search raises for a task, that task's
\* resource list is the generator's, the tasks after it are searched for
\* exactly as if the search had returned nothing (a task is searched for
\* iff fewer than 5 earlier searches returned results), nothing is added to
\* state.errors and the draft is stored.
C34_SearchFailureIsSkipped ==
    [][(/\ StructuringSucceeds
        /\ \E i \in DOMAIN outcome'.answers : outcome'.answers[i].raises)
         => /\ \A i \in DOMAIN outcome'.answers :
                 /\ (\E c \in DOMAIN outcome'.searches :
                        outcome'.searches[c] = i)
                      = (Cardinality({k \in 1..(i - 1) :
                                        Found(outcome'.answers, k)})
                           < SEARCH_LIMIT)
                 /\ outcome'.answers[i].raises
                      => TaskResources(draft_curriculum'.resources, i)
                           = TaskResources(GeneratedResources(outcome'.doc), i)
            /\ errors' = errors
            /\ ~draft_curriculum'.empty
            /\ draft_curriculum'.attempt = iteration']_vars

\* The first task's search raised, the task kept the generator's four
\* resources, and the last task was still searched for and enriched.
C34_Witness ==
    /\ Stored
    /\ outcome.answers[1].raises
    /\ draft_curriculum.resources[1] = <<1, 2, 3, 4>>
    /\ outcome.searches[1] = 1
    /\ (SEARCH_LIMIT + 1) \in outcome.assigned
    /\ errors = <<>>

(* ------------------------ the Structuring prompt --------------------- *)
\* A Structuring execution has sent its messages to the generator.
Prompted == outcome.agent = "CurriculumAgent" /\ "messages" \in DOMAIN outcome

\* C35: the messages of a Structuring execution with iteration > 1 differ
\* from those of a run that is identical except for the violations of the
\* stored Quality Gate verdict, and on iteration 1 no corrective feedback
\* is injected.
C35_PromptDependsOnViolations ==
    Prompted =>
      /\ (iteration > 1 /\ ~quality_review.empty) =>
           \A other \in ViolationLists \ {quality_review.violations} :
             StructuringMessages(
                 [StateAt(iteration) EXCEPT !.quality_review.violations = other])
               # outcome.messages
      /\ iteration = 1 => outcome.messages[1].expert_feedback = <<>>

====
